---- MODULE Spec2Model ----
(***************************************************************************)
(* A model of the statistics core of src/utils.py:                         *)
(*   calculate_standings   - the league table of a division                *)
(*   analyze_game_events   - the replay of a game's event timeline         *)
(*   get_game_top_scorer   - the top scorer of a game                      *)
(*   parse_referees, parse_location_name - the decoders of nested fields   *)
(*   extract_all_player_stats - the player fact table                      *)
(*   extract_referee_stats - the referee fact table                        *)
(*   get_top_scorers, get_biggest_wins, get_most_tie_scores - rankings     *)
(* Each function is a small state machine: one action per loop iteration   *)
(* or straight-line block of the function, the rows and events it reads    *)
(* drawn from bounded sets when it reads them.                             *)
(***************************************************************************)
EXTENDS Integers, Sequences, FiniteSets, TLC

\* ------------------------------------------------------------------------
\* Bounds of the model
\* ------------------------------------------------------------------------
MaxScore == 1
MaxRows == 2
MaxEvents == 3
MaxAdv == 2
MaxGames == 2
MaxTableEvents == 1

Teams == {"A", "B", "C"}

\* ------------------------------------------------------------------------
\* Nullable numbers: a final score read from the table is a number or NaN
\* (an unfinished game).  Arithmetic and comparison follow IEEE/pandas: NaN
\* propagates through + - abs, and every ordering comparison with NaN is
\* false.
\* ------------------------------------------------------------------------
NaN == [nan |-> TRUE, v |-> 0]

Num(n) == [nan |-> FALSE, v |-> n]

FAdd(a, b) == IF a.nan \/ b.nan THEN NaN ELSE Num(a.v + b.v)

FSub(a, b) == IF a.nan \/ b.nan THEN NaN ELSE Num(a.v - b.v)

FAbs(a) == IF a.nan THEN NaN ELSE Num(IF a.v < 0 THEN 0 - a.v ELSE a.v)

FGt(a, b) == ~a.nan /\ ~b.nan /\ a.v > b.v

FGe(a, b) == ~a.nan /\ ~b.nan /\ a.v >= b.v

ScoreValues == {Num(n) : n \in 0..MaxScore} \cup {NaN}

\* ------------------------------------------------------------------------
\* State
\* ------------------------------------------------------------------------
VARIABLES
    st_pc,          \* calculate_standings: "loop", "done", "raised"
    standings,      \* the defaultdict, as its items in insertion order
    standings_df,   \* the table returned
    st_rows,        \* rows of df iterated so far
    st_completed    \* of these, the rows with both final scores present

VARIABLES
    an_pc,              \* analyze_game_events: "start", "row", "replay", "returned", "raised"
    data_len,           \* the number of rows of data
    game,               \* the row being analysed
    iterable,           \* events_data is the decoded list (not the [] fallback)
    timeline,           \* the events of events_data iterated so far
    tie_count,
    lead_changes,
    max_home_lead,
    max_away_lead,
    current_advantage,
    previous_leader,
    game_analyses       \* the rows emitted so far

VARIABLES
    sc_pc,          \* get_game_top_scorer: "start", "replay", "done"
    sc_game,        \* the row: the form of its GameEvents field and the events it holds
    sc_i,           \* events of the decoded list iterated so far
    player_stats,   \* the dict, as its items in insertion order
    sc_result       \* the dict returned

VARIABLES
    pl_pc,          \* extract_all_player_stats: "start", "row", "returned", "raised"
    pl_len,         \* the number of rows of data
    pl_data,        \* the rows of data iterated so far
    teams_data,     \* the local teams_data, as the last assignment left it
    all_players     \* the records appended so far

VARIABLES
    pr_pc,          \* parse_referees / parse_location_name: "call", "returned", "raised"
    pr_fn,          \* which of the two is called
    pr_input,       \* the value passed
    pr_output       \* the value returned

VARIABLES
    rf_pc,          \* extract_referee_stats: "start", "row", "returned"
    rf_len,         \* the number of rows of data
    rf_data,        \* the rows of data iterated so far
    referee_stats   \* the records appended so far

VARIABLES
    rk_pc,          \* a query called on a fact table: "call", "returned"
    rk_query,       \* which query is called
    rk_table,       \* the fact table it reads
    rk_n,           \* top_n
    rk_out          \* the rows returned

VARIABLES
    cb_pc,                       \* get_best_player_combinations: "groups", "returned"
    cb_min_games,                \* min_games
    cb_groups,                   \* the (team, game) groups iterated so far
    starting_five_combinations,  \* the dict, as its items in insertion order
    best_combinations,           \* the rows of best_starting_fives
    player_synergies             \* the rows of player_synergies

VARIABLES
    fx_pc,          \* get_fixtures_matrix_data: "start", "row", "returned", "raised"
    fx_data,        \* the rows of data
    fx_filter,      \* division_filter
    fx_i,           \* rows of filtered_data iterated so far
    fx_teams,       \* all_teams
    fx_matrix       \* matrix

VARIABLES
    cc_data,        \* the snapshot two callers share
    cc_fn,          \* the aggregation each caller runs
    cc_pc,          \* where each caller is in it
    cc_local,       \* the locals of each caller
    cc_result       \* what each caller was returned

VARIABLES
    referee_impact,  \* get_referee_game_impact_analysis: the records of the loop
    ref_summary      \* get_referee_game_impact_analysis: referee_impact_summary

VARIABLES
    team_stats,     \* get_team_performance_stats: the dict, as its items in insertion order
    team_df         \* get_team_performance_stats: the table returned

st_vars == <<st_pc, standings, standings_df, st_rows, st_completed>>

cb_vars == <<cb_pc, cb_min_games, cb_groups, starting_five_combinations, best_combinations,
            player_synergies>>

fx_vars == <<fx_pc, fx_data, fx_filter, fx_i, fx_teams, fx_matrix>>

cc_vars == <<cc_data, cc_fn, cc_pc, cc_local, cc_result>>

tp_vars == <<team_stats, team_df>>

ri_vars == <<referee_impact, ref_summary>>

sc_vars == <<sc_pc, sc_game, sc_i, player_stats, sc_result>>

replay_vars ==
    <<tie_count, lead_changes, max_home_lead, max_away_lead, current_advantage, previous_leader>>

an_vars == <<an_pc, data_len, game, iterable, timeline, replay_vars, game_analyses>>

pl_vars == <<pl_pc, pl_len, pl_data, teams_data, all_players>>

pr_vars == <<pr_pc, pr_fn, pr_input, pr_output>>

rf_vars == <<rf_pc, rf_len, rf_data, referee_stats>>

rk_vars == <<rk_pc, rk_query, rk_table, rk_n, rk_out>>

vars == <<st_vars, an_vars, sc_vars, pl_vars, pr_vars, rf_vars, rk_vars, cb_vars, fx_vars, cc_vars, tp_vars, ri_vars>>

\* What each function leaves alone: the state of all the others.
not_st_vars == <<an_vars, sc_vars, pl_vars, pr_vars, rf_vars, rk_vars, cb_vars, fx_vars, cc_vars, tp_vars, ri_vars>>

not_an_vars == <<st_vars, sc_vars, pl_vars, pr_vars, rf_vars, rk_vars, cb_vars, fx_vars, cc_vars, tp_vars, ri_vars>>

not_sc_vars == <<st_vars, an_vars, pl_vars, pr_vars, rf_vars, rk_vars, cb_vars, fx_vars, cc_vars, tp_vars, ri_vars>>

not_pl_vars == <<st_vars, an_vars, sc_vars, pr_vars, rf_vars, rk_vars, cb_vars, fx_vars, cc_vars, tp_vars, ri_vars>>

not_pr_vars == <<st_vars, an_vars, sc_vars, pl_vars, rf_vars, rk_vars, cb_vars, fx_vars, cc_vars, tp_vars, ri_vars>>

not_rf_vars == <<st_vars, an_vars, sc_vars, pl_vars, pr_vars, rk_vars, cb_vars, fx_vars, cc_vars, tp_vars, ri_vars>>

not_rk_vars == <<st_vars, an_vars, sc_vars, pl_vars, pr_vars, rf_vars, cb_vars, fx_vars, cc_vars, tp_vars, ri_vars>>

base_vars == <<an_vars, sc_vars, pl_vars, pr_vars, rf_vars, rk_vars>>

not_cb_vars == <<st_vars, base_vars, fx_vars, cc_vars, tp_vars, ri_vars>>

not_fx_vars == <<st_vars, base_vars, cb_vars, cc_vars, tp_vars, ri_vars>>

not_cc_vars == <<st_vars, base_vars, cb_vars, fx_vars, tp_vars, ri_vars>>

\* calculate_standings and get_team_performance_stats run side by side
not_st_tp_vars == <<base_vars, cb_vars, fx_vars, cc_vars, ri_vars>>

\* extract_referee_stats and get_referee_game_impact_analysis run side by side
not_rf_ri_vars == <<st_vars, an_vars, sc_vars, pl_vars, pr_vars, rk_vars, cb_vars, fx_vars, cc_vars,
                    tp_vars>>

\* The functions the specification at hand does not run are not started.
StandingsIdle ==
    /\ st_pc = "idle"
    /\ standings = <<>>
    /\ standings_df = <<>>
    /\ st_rows = 0
    /\ st_completed = 0

NoTopScorer == [name |-> "None", points |-> 0, team |-> "None"]

ScorerIdle ==
    /\ sc_pc = "idle"
    /\ sc_game = [GameEvents |-> "missing", events |-> <<>>]
    /\ sc_i = 0
    /\ player_stats = <<>>
    /\ sc_result = NoTopScorer

NoGame ==
    [GameId |-> 0, HomeTeamName |-> "A", AwayTeamName |-> "B",
     FinalHomeScore |-> NaN, FinalAwayScore |-> NaN, GameEvents |-> "missing"]

AnalyzeIdle ==
    /\ an_pc = "idle"
    /\ data_len = 0
    /\ game = NoGame
    /\ iterable = FALSE
    /\ timeline = <<>>
    /\ tie_count = 0
    /\ lead_changes = 0
    /\ max_home_lead = 0
    /\ max_away_lead = 0
    /\ current_advantage = 0
    /\ previous_leader = "None"
    /\ game_analyses = <<>>

PlayersIdle ==
    /\ pl_pc = "idle"
    /\ pl_len = 0
    /\ pl_data = <<>>
    /\ teams_data = [islist |-> FALSE, items |-> <<>>]
    /\ all_players = <<>>

ParseIdle ==
    /\ pr_pc = "idle"
    /\ pr_fn = "none"
    /\ pr_input = [form |-> "nan", items |-> <<>>]
    /\ pr_output = <<>>

RefereesIdle ==
    /\ rf_pc = "idle"
    /\ rf_len = 0
    /\ rf_data = <<>>
    /\ referee_stats = <<>>

RankIdle ==
    /\ rk_pc = "idle"
    /\ rk_query = "none"
    /\ rk_table = <<>>
    /\ rk_n = 0
    /\ rk_out = <<>>

CombinationsIdle ==
    /\ cb_pc = "idle"
    /\ cb_min_games = 0
    /\ cb_groups = <<>>
    /\ starting_five_combinations = <<>>
    /\ best_combinations = <<>>
    /\ player_synergies = <<>>

FixturesIdle ==
    /\ fx_pc = "idle"
    /\ fx_data = <<>>
    /\ fx_filter = "None"
    /\ fx_i = 0
    /\ fx_teams = <<>>
    /\ fx_matrix = <<>>

CallersIdle ==
    /\ cc_data = <<>>
    /\ cc_fn = <<>>
    /\ cc_pc = <<>>
    /\ cc_local = <<>>
    /\ cc_result = <<>>

\* Every function but the one named is not started.
IdleExcept(m) ==
    /\ IF m = "st" THEN TRUE ELSE StandingsIdle
    /\ IF m = "an" THEN TRUE ELSE AnalyzeIdle
    /\ IF m = "sc" THEN TRUE ELSE ScorerIdle
    /\ IF m = "pl" THEN TRUE ELSE PlayersIdle
    /\ IF m = "pr" THEN TRUE ELSE ParseIdle
    /\ IF m = "rf" THEN TRUE ELSE RefereesIdle
    /\ IF m = "rk" THEN TRUE ELSE RankIdle
    /\ IF m = "cb" THEN TRUE ELSE CombinationsIdle
    /\ IF m = "fx" THEN TRUE ELSE FixturesIdle
    /\ IF m = "cc" THEN TRUE ELSE CallersIdle
    /\ team_stats = <<>>
    /\ team_df = <<>>
    /\ referee_impact = <<>>
    /\ ref_summary = <<>>

\* ------------------------------------------------------------------------
\* calculate_standings
\* ------------------------------------------------------------------------
\* The rows of the game table: any two different teams, any final scores.
StandingsRows ==
    {r \in [HomeTeamName : Teams, AwayTeamName : Teams,
            FinalHomeScore : ScoreValues, FinalAwayScore : ScoreValues] :
        r.HomeTeamName # r.AwayTeamName}

\* defaultdict(lambda: {...}): the entry a first access creates.
NewEntry(team) ==
    [Team |-> team, Games |-> 0, W |-> 0, L |-> 0, F |-> Num(0), A |-> Num(0), Points |-> 0]

HasKey(d, team) == \E i \in 1..Len(d) : d[i].Team = team

\* standings[team]: the first access of a missing key appends its entry.
Touch(d, team) == IF HasKey(d, team) THEN d ELSE Append(d, NewEntry(team))

\* The league points of a game's winner and of its loser.
WinPoints == 2

LossPoints == 1

HomeWins(row) == FGt(row.FinalHomeScore, row.FinalAwayScore)

\* The league points the row gives its home side (lines 81-89).
HomePoints(row) == IF HomeWins(row) THEN WinPoints ELSE LossPoints

\* A slip in the else branch: the away winner is given the loser's point.
AwayPointsSlip(row) == IF HomeWins(row) THEN LossPoints ELSE LossPoints

\* The league points the row gives its away side (lines 81-89).
AwayPoints(row) == IF HomeWins(row) THEN LossPoints ELSE WinPoints

\* One iteration of the loop over df.iterrows(): the update of one entry.
UpdateEntry(e, row) ==
    IF e.Team = row.HomeTeamName
    THEN [e EXCEPT !.Games = @ + 1,
                   !.F = FAdd(@, row.FinalHomeScore),
                   !.A = FAdd(@, row.FinalAwayScore),
                   !.W = IF HomeWins(row) THEN @ + 1 ELSE @,
                   !.L = IF HomeWins(row) THEN @ ELSE @ + 1,
                   !.Points = @ + HomePoints(row)]
    ELSE IF e.Team = row.AwayTeamName
    THEN [e EXCEPT !.Games = @ + 1,
                   !.F = FAdd(@, row.FinalAwayScore),
                   !.A = FAdd(@, row.FinalHomeScore),
                   !.W = IF HomeWins(row) THEN @ ELSE @ + 1,
                   !.L = IF HomeWins(row) THEN @ + 1 ELSE @,
                   !.Points = @ + AwayPoints(row)]
    ELSE e

AccumulateRow(d, row) ==
    LET d2 == Touch(Touch(d, row.HomeTeamName), row.AwayTeamName)
    IN  [i \in 1..Len(d2) |-> UpdateEntry(d2[i], row)]

\* 'Points Diff' = F - A
WithPointsDiff(e) ==
    [Team |-> e.Team, Games |-> e.Games, W |-> e.W, L |-> e.L, F |-> e.F, A |-> e.A,
     Points |-> e.Points, PointsDiff |-> FSub(e.F, e.A), Rank |-> 0]

\* sort_values(by=['Points', 'Points Diff'], ascending=[False, False]):
\* x sorts strictly before y.  A NaN 'Points Diff' sorts last among equal
\* Points (na_position='last').
SortsBefore(x, y) ==
    \/ x.Points > y.Points
    \/ /\ x.Points = y.Points
       /\ ~x.PointsDiff.nan
       /\ (y.PointsDiff.nan \/ x.PointsDiff.v > y.PointsDiff.v)

\* The number of rows of s that x does not sort strictly before, from the front.
RECURSIVE InsertPos(_, _, _)
InsertPos(s, x, i) ==
    IF i > Len(s) THEN i
    ELSE IF SortsBefore(x, s[i]) THEN i
    ELSE InsertPos(s, x, i + 1)

InsertRow(s, x) ==
    LET p == InsertPos(s, x, 1)
    IN  SubSeq(s, 1, p - 1) \o <<x>> \o SubSeq(s, p, Len(s))

\* The multi-key sort of pandas is stable: rows equal on both keys keep
\* their order.
RECURSIVE SortValues(_)
SortValues(s) ==
    IF s = <<>> THEN <<>>
    ELSE InsertRow(SortValues(SubSeq(s, 1, Len(s) - 1)), s[Len(s)])

\* reset_index(drop=True); index += 1; index.name = 'Rank'
WithRank(s) == [i \in 1..Len(s) |-> [s[i] EXCEPT !.Rank = i]]

BuildStandingsTable(d) ==
    WithRank(SortValues([i \in 1..Len(d) |-> WithPointsDiff(d[i])]))

Completed(row) == ~row.FinalHomeScore.nan /\ ~row.FinalAwayScore.nan

InitStandings ==
    /\ st_pc = "loop"
    /\ standings = <<>>
    /\ standings_df = <<>>
    /\ st_rows = 0
    /\ st_completed = 0
    /\ IdleExcept("st")

\* for _, row in df.iterrows(): one row
StandingsRow ==
    /\ st_pc = "loop"
    /\ st_rows < MaxRows
    /\ \E row \in StandingsRows :
        /\ standings' = AccumulateRow(standings, row)
        /\ st_completed' = IF Completed(row) THEN st_completed + 1 ELSE st_completed
    /\ st_rows' = st_rows + 1
    /\ UNCHANGED <<st_pc, standings_df, not_st_vars>>

\* the rows are exhausted: build, sort and rank the table, and return it.
\* With no row at all the frame built from the empty dict has no column
\* 'F', and standings_df['F'] raises KeyError.
StandingsBuild ==
    /\ st_pc = "loop"
    /\ IF standings = <<>>
       THEN /\ st_pc' = "raised"
            /\ UNCHANGED standings_df
       ELSE /\ standings_df' = BuildStandingsTable(standings)
            /\ st_pc' = "done"
    /\ UNCHANGED <<standings, st_rows, st_completed, not_st_vars>>

NextStandings == StandingsRow \/ StandingsBuild

SpecStandings == InitStandings /\ [][NextStandings]_vars

\* ------------------------------------------------------------------------
\* Claims about calculate_standings
\* ------------------------------------------------------------------------
RECURSIVE SumW(_)
SumW(s) == IF s = <<>> THEN 0 ELSE s[1].W + SumW(Tail(s))

RECURSIVE SumL(_)
SumL(s) == IF s = <<>> THEN 0 ELSE s[1].L + SumL(Tail(s))

\* C2: in the table returned, the wins of all teams sum to the number of
\* completed games (both final scores present) of the input, and so do the
\* losses.
C2_WinsAndLossesSumToCompletedGames ==
    st_pc = "done" =>
        /\ SumW(standings_df) = st_completed
        /\ SumL(standings_df) = st_completed

\* What the code does: every row, finished or not, is one win and one loss.
C2_WinsAndLossesSumToRows ==
    st_pc = "done" =>
        /\ SumW(standings_df) = st_rows
        /\ SumL(standings_df) = st_rows

EntryOf(d, team) ==
    IF HasKey(d, team) THEN d[CHOOSE i \in 1..Len(d) : d[i].Team = team] ELSE NewEntry(team)

C3_RowsConsistent ==
    /\ \A i \in 1..Len(standings) :
          /\ standings[i].Games = standings[i].W + standings[i].L
          /\ standings[i].Points = 2 * standings[i].W + standings[i].L
    /\ \A i \in 1..Len(standings_df) :
          /\ standings_df[i].Games = standings_df[i].W + standings_df[i].L
          /\ standings_df[i].Points = 2 * standings_df[i].W + standings_df[i].L

\* A game gives one team a win and 2 points and the other a loss and 1 point,
\* whichever of them is the home side.
C3_GameAward ==
    standings' # standings =>
        \E w \in Teams, l \in Teams :
            /\ w # l
            /\ EntryOf(standings', w).Points = EntryOf(standings, w).Points + 2
            /\ EntryOf(standings', w).W = EntryOf(standings, w).W + 1
            /\ EntryOf(standings', w).L = EntryOf(standings, w).L
            /\ EntryOf(standings', l).Points = EntryOf(standings, l).Points + 1
            /\ EntryOf(standings', l).L = EntryOf(standings, l).L + 1
            /\ EntryOf(standings', l).W = EntryOf(standings, l).W
            /\ \A t \in Teams \ {w, l} : EntryOf(standings', t) = EntryOf(standings, t)

\* C3: after any sequence of games every team row has Games = W + L and
\* Points = 2*W + L, and each game gives 2 points to its winner and 1 to its
\* loser whether the winner is the home or the away side.
C3_PointsRule == []C3_RowsConsistent /\ [][C3_GameAward]_vars

\* A table is returned in which a team has won at home and lost away, or
\* lost at home and won away.
C3_Witness ==
    /\ st_pc = "done"
    /\ \E i \in 1..Len(standings_df) : standings_df[i].W > 0 /\ standings_df[i].L > 0

PositionOf(d, team) == CHOOSE i \in 1..Len(d) : d[i].Team = team

OrderedPair(x, y) ==
    \/ x.Points > y.Points
    \/ x.Points = y.Points /\ FGe(x.PointsDiff, y.PointsDiff)

TiedPair(x, y) == x.Points = y.Points /\ x.PointsDiff = y.PointsDiff

TableOrdered(t, d) ==
    /\ \A i \in 1..(Len(t) - 1) : OrderedPair(t[i], t[i + 1])
    /\ \A i \in 1..Len(t) : \A j \in (i + 1)..Len(t) :
          TiedPair(t[i], t[j]) => PositionOf(d, t[i].Team) < PositionOf(d, t[j].Team)
    /\ \A i \in 1..Len(t) : t[i].Rank = i
    /\ Len(t) = Len(d)

\* C4: the table returned is in descending order of Points, then of
\* Points Diff; rows equal on both keep the order in which their teams were
\* first met in the input; the ranks are 1..number of teams.
C4_TableOrdered == st_pc = "done" => TableOrdered(standings_df, standings)

\* The same, for the tables of finished games only.
C4_TableOrderedWhenAllCompleted ==
    (st_pc = "done" /\ st_completed = st_rows) => TableOrdered(standings_df, standings)

\* A table of finished games with two rows tied on both keys.
C4_TieReached ==
    /\ st_pc = "done"
    /\ st_completed = st_rows
    /\ \E i \in 1..Len(standings_df) : \E j \in (i + 1)..Len(standings_df) :
          TiedPair(standings_df[i], standings_df[j])

\* ------------------------------------------------------------------------
\* analyze_game_events
\* ------------------------------------------------------------------------
\* An entry of a GameEvents list.  isdict: the entry is a record.  adv_kind:
\* the value of its 'EventAdvantage' key - "none" (key absent, or None),
\* "int" (the number adv) or "str" (a text, not a number).
AdvValues == (0 - MaxAdv)..MaxAdv

Event(isdict, kind, adv) ==
    [isdict |-> isdict, adv_kind |-> kind, adv |-> adv,
     has_keys |-> isdict, actor |-> "", action |-> "Foul Added", team |-> ""]

NotARecord == Event(FALSE, "none", 0)

NoAdvantage == Event(TRUE, "none", 0)

TextAdvantage == Event(TRUE, "str", 0)

Advantage(n) == Event(TRUE, "int", n)

AdvantageEvents == {NotARecord, NoAdvantage, TextAdvantage} \cup {Advantage(n) : n \in AdvValues}

\* The forms of the GameEvents field of a row: the column is missing, the
\* value is null, a text that does not parse, the text of a literal that is
\* no list, a native value that is no list, the text of a list, a native list.
EventForms == {"missing", "nan", "badtext", "nonlist_text", "nonlist", "text", "list"}

\* try: literal_eval / except: [] / if not isinstance(.., list): []
\* TRUE when events_data ends up the decoded list of the field.
ParsesToList(form) == form \in {"text", "list"}

ScorePairs == ScoreValues \X ScoreValues

\* event.get('EventAdvantage', 0): an event without the key reads as a tie.
HasAdvantageDefaultZero(event) == event.isdict

\* advantage = event.get('EventAdvantage'); advantage is not None
HasAdvantage(event) == event.isdict /\ event.adv_kind # "none"

\* tie_count = 1 in place of tie_count += 1
TieCountAssigned(n, adv) == IF adv = 0 THEN 1 ELSE n

\* if advantage == 0: tie_count += 1
TieCountAfter(n, adv) == IF adv = 0 THEN n + 1 ELSE n

\* max_home_lead = max(max_home_lead, advantage) when advantage > 0
MaxHomeLeadAfter(m, adv) == IF adv > 0 /\ adv > m THEN adv ELSE m

\* max(max_away_lead, advantage): the abs() forgotten
MaxAwayLeadNoAbs(m, adv) == IF adv < 0 /\ adv > m THEN adv ELSE m

\* max_away_lead = max(max_away_lead, abs(advantage)) when advantage < 0
MaxAwayLeadAfter(m, adv) == IF adv < 0 /\ (0 - adv) > m THEN 0 - adv ELSE m

\* current_leader
CurrentLeader(adv) == IF adv > 0 THEN "home" ELSE IF adv < 0 THEN "away" ELSE "None"

\* the test `previous_leader is not None` left out: the first lead counts
LeadChangesFromNone(n, prev, cur) ==
    IF cur # prev /\ cur # "None" THEN n + 1 ELSE n

\* if previous_leader is not None and current_leader != previous_leader
\*    and current_leader is not None: lead_changes += 1
LeadChangesAfter(n, prev, cur) ==
    IF prev # "None" /\ cur # prev /\ cur # "None" THEN n + 1 ELSE n

\* previous_leader = current_leader, unguarded: a tie forgets the leader
PreviousLeaderUnguarded(prev, cur) == cur

\* if current_leader is not None: previous_leader = current_leader
PreviousLeaderAfter(prev, cur) == IF cur # "None" THEN cur ELSE prev

\* winner = home_team if final_home_score > final_away_score else away_team
Winner(g) ==
    IF FGt(g.FinalHomeScore, g.FinalAwayScore) THEN g.HomeTeamName ELSE g.AwayTeamName

\* win_margin = abs(final_home_score - final_away_score)
WinMargin(g) == FAbs(FSub(g.FinalHomeScore, g.FinalAwayScore))

Max(a, b) == IF a >= b THEN a ELSE b

GameAnalysis ==
    [GameId |-> game.GameId,
     HomeTeam |-> game.HomeTeamName,
     AwayTeam |-> game.AwayTeamName,
     FinalHomeScore |-> game.FinalHomeScore,
     FinalAwayScore |-> game.FinalAwayScore,
     TieScores |-> tie_count,
     LeadChanges |-> lead_changes,
     MaxHomeLead |-> max_home_lead,
     MaxAwayLead |-> max_away_lead,
     BiggestLead |-> Max(max_home_lead, max_away_lead),
     WinMargin |-> WinMargin(game),
     Winner |-> Winner(game)]

\* if data.empty: return pd.DataFrame()
AnalyzeStart ==
    /\ an_pc = "start"
    /\ an_pc' = IF data_len = 0 THEN "returned" ELSE "row"
    /\ UNCHANGED <<data_len, game, iterable, timeline, replay_vars, game_analyses, not_an_vars>>

\* for _, game in data.iterrows(): the next row is read, its GameEvents
\* decoded and the replay state reset.
AnalyzeReadRow(pairs) ==
    /\ an_pc = "row"
    /\ Len(game_analyses) < data_len
    /\ \E sc \in pairs, form \in EventForms :
        /\ game' = [GameId |-> Len(game_analyses) + 1,
                    HomeTeamName |-> "A", AwayTeamName |-> "B",
                    FinalHomeScore |-> sc[1], FinalAwayScore |-> sc[2],
                    GameEvents |-> form]
        /\ iterable' = ParsesToList(form)
    /\ timeline' = <<>>
    /\ tie_count' = 0
    /\ lead_changes' = 0
    /\ max_home_lead' = 0
    /\ max_away_lead' = 0
    /\ current_advantage' = 0
    /\ previous_leader' = "None"
    /\ an_pc' = "replay"
    /\ UNCHANGED <<data_len, game_analyses, not_an_vars>>

\* for event in events_data: one event.  An advantage that is a text makes
\* `advantage > 0` raise TypeError, which nothing catches.
AnalyzeEvent(events, maxlen) ==
    /\ an_pc = "replay"
    /\ iterable
    /\ Len(timeline) < maxlen
    /\ \E event \in events :
        /\ timeline' = Append(timeline, event)
        /\ IF ~HasAdvantage(event)
           THEN UNCHANGED <<an_pc, replay_vars>>
           ELSE IF event.adv_kind = "str"
           THEN /\ an_pc' = "raised"
                /\ UNCHANGED replay_vars
           ELSE LET cur == CurrentLeader(event.adv)
                IN  /\ current_advantage' = event.adv
                    /\ tie_count' = TieCountAfter(tie_count, event.adv)
                    /\ max_home_lead' = MaxHomeLeadAfter(max_home_lead, event.adv)
                    /\ max_away_lead' = MaxAwayLeadAfter(max_away_lead, event.adv)
                    /\ lead_changes' = LeadChangesAfter(lead_changes, previous_leader, cur)
                    /\ previous_leader' = PreviousLeaderAfter(previous_leader, cur)
                    /\ UNCHANGED an_pc
    /\ UNCHANGED <<data_len, game, iterable, game_analyses, not_an_vars>>

\* the events are exhausted: game_analyses.append(game_analysis)
AnalyzeEmit ==
    /\ an_pc = "replay"
    /\ game_analyses' = Append(game_analyses, GameAnalysis)
    /\ an_pc' = "row"
    /\ UNCHANGED <<data_len, game, iterable, timeline, replay_vars, not_an_vars>>

\* return pd.DataFrame(game_analyses)
AnalyzeReturn ==
    /\ an_pc = "row"
    /\ Len(game_analyses) = data_len
    /\ an_pc' = "returned"
    /\ UNCHANGED <<data_len, game, iterable, timeline, replay_vars, game_analyses, not_an_vars>>

AnalyzeInit(lens) ==
    /\ an_pc = "start"
    /\ data_len \in lens
    /\ game = NoGame
    /\ iterable = FALSE
    /\ timeline = <<>>
    /\ tie_count = 0
    /\ lead_changes = 0
    /\ max_home_lead = 0
    /\ max_away_lead = 0
    /\ current_advantage = 0
    /\ previous_leader = "None"
    /\ game_analyses = <<>>
    /\ IdleExcept("an")

\* The analysis of a table of one game, over every timeline of at most
\* MaxEvents events.
InitGame == AnalyzeInit({1})

NextGame ==
    \/ AnalyzeStart
    \/ AnalyzeReadRow(ScorePairs)
    \/ AnalyzeEvent(AdvantageEvents, MaxEvents)
    \/ AnalyzeEmit
    \/ AnalyzeReturn

SpecGame == InitGame /\ [][NextGame]_vars

\* The analysis of a table of up to MaxGames games, each of at most
\* MaxTableEvents events.
TableScorePairs == {<<Num(1), Num(0)>>, <<NaN, NaN>>}

TableEvents == {NotARecord, NoAdvantage, TextAdvantage, Advantage(0), Advantage(1)}

InitTable == AnalyzeInit(0..MaxGames)

NextTable ==
    \/ AnalyzeStart
    \/ AnalyzeReadRow(TableScorePairs)
    \/ AnalyzeEvent(TableEvents, MaxTableEvents)
    \/ AnalyzeEmit
    \/ AnalyzeReturn

SpecTable == InitTable /\ [][NextTable]_vars

\* ------------------------------------------------------------------------
\* Claims about analyze_game_events
\* ------------------------------------------------------------------------
RowEmitted == an_pc \in {"row", "returned"} /\ Len(game_analyses) > 0

LastRow == game_analyses[Len(game_analyses)]

\* C1: every row has WinMargin = |home score - away score|, names the home
\* team winner only when the home score is strictly larger and the away team
\* only when the away score is strictly larger.
C1_MarginAndWinner ==
    \A i \in 1..Len(game_analyses) :
        LET r == game_analyses[i]
        IN  /\ r.WinMargin = FAbs(FSub(r.FinalHomeScore, r.FinalAwayScore))
            /\ r.Winner = r.HomeTeam => FGt(r.FinalHomeScore, r.FinalAwayScore)
            /\ r.Winner = r.AwayTeam => FGt(r.FinalAwayScore, r.FinalHomeScore)

\* The same for the games with two different final scores.
C1_MarginAndWinnerOfDecidedGames ==
    \A i \in 1..Len(game_analyses) :
        LET r == game_analyses[i]
        IN  (FGt(r.FinalHomeScore, r.FinalAwayScore) \/ FGt(r.FinalAwayScore, r.FinalHomeScore)) =>
                /\ r.WinMargin = FAbs(FSub(r.FinalHomeScore, r.FinalAwayScore))
                /\ r.Winner = r.HomeTeam => FGt(r.FinalHomeScore, r.FinalAwayScore)
                /\ r.Winner = r.AwayTeam => FGt(r.FinalAwayScore, r.FinalHomeScore)

\* The timeline seen as its advantage values.
IsNumber(t, i) == t[i].isdict /\ t[i].adv_kind = "int"

NonZero(t, i) == IsNumber(t, i) /\ t[i].adv # 0

SideAt(t, i) == IF t[i].adv > 0 THEN "home" ELSE "away"

EarlierNonZero(t, i) == {j \in 1..(i - 1) : NonZero(t, j)}

LastOf(S) == CHOOSE j \in S : \A k \in S : k <= j

SideSwitches(t) ==
    {i \in 1..Len(t) :
        /\ NonZero(t, i)
        /\ EarlierNonZero(t, i) # {}
        /\ SideAt(t, LastOf(EarlierNonZero(t, i))) # SideAt(t, i)}

\* C5: LeadChanges is the number of events with a non-zero advantage whose
\* side differs from the side of the most recent earlier event with a
\* non-zero advantage; ties and events without advantage in between do not
\* reset the remembered leader.
C5_LeadChanges ==
    /\ an_pc \in {"replay", "row", "returned"} => lead_changes = Cardinality(SideSwitches(timeline))
    /\ RowEmitted => LastRow.LeadChanges = Cardinality(SideSwitches(timeline))

\* A row is emitted for a timeline in which the lead changes across a tie.
C5_Witness ==
    /\ RowEmitted
    /\ LastRow.LeadChanges >= 1
    /\ \E i \in SideSwitches(timeline) :
          \E j \in 1..(i - 1) : j > LastOf(EarlierNonZero(timeline, i))
                                  /\ IsNumber(timeline, j) /\ timeline[j].adv = 0

Ties(t) == {i \in 1..Len(t) : IsNumber(t, i) /\ t[i].adv = 0}

\* C6: TieScores is the number of events whose advantage is exactly zero.
C6_TieScores ==
    /\ an_pc \in {"replay", "row", "returned"} => tie_count = Cardinality(Ties(timeline))
    /\ RowEmitted => LastRow.TieScores = Cardinality(Ties(timeline))

\* A row is emitted for a timeline with two consecutive ties.
C6_Witness ==
    /\ RowEmitted
    /\ LastRow.TieScores >= 2
    /\ \E i \in Ties(timeline) : i + 1 \in Ties(timeline)

HomeLeads(t) == {t[i].adv : i \in {k \in 1..Len(t) : IsNumber(t, k) /\ t[k].adv > 0}}

AwayLeads(t) == {0 - t[i].adv : i \in {k \in 1..Len(t) : IsNumber(t, k) /\ t[k].adv < 0}}

Largest(S) == IF S = {} THEN 0 ELSE CHOOSE x \in S : \A y \in S : y <= x

\* C7: MaxHomeLead is the largest positive advantage of the timeline (0 if
\* none), MaxAwayLead the largest magnitude of a negative one (0 if none),
\* neither is negative, and BiggestLead is the larger of the two.
C7_MaxLeads ==
    RowEmitted =>
        /\ LastRow.MaxHomeLead = Largest(HomeLeads(timeline))
        /\ LastRow.MaxAwayLead = Largest(AwayLeads(timeline))
        /\ LastRow.MaxHomeLead >= 0
        /\ LastRow.MaxAwayLead >= 0
        /\ LastRow.BiggestLead >= LastRow.MaxHomeLead
        /\ LastRow.BiggestLead >= LastRow.MaxAwayLead
        /\ LastRow.BiggestLead \in {LastRow.MaxHomeLead, LastRow.MaxAwayLead}

\* A row is emitted for a timeline in which both sides led, the away side by
\* more, and its largest lead was not its last.
C7_Witness ==
    /\ RowEmitted
    /\ LastRow.MaxHomeLead > 0
    /\ LastRow.MaxAwayLead > LastRow.MaxHomeLead
    /\ \E i \in 1..Len(timeline) : \E j \in (i + 1)..Len(timeline) :
          /\ IsNumber(timeline, i) /\ IsNumber(timeline, j)
          /\ timeline[i].adv < timeline[j].adv /\ timeline[j].adv < 0

CarriesNoAdvantage(e) == ~e.isdict \/ e.adv_kind = "none"

EventReplayed == Len(timeline') = Len(timeline) + 1

\* C8: the replay of an event that carries no advantage value, or is no
\* record, leaves the tie count, the lead-change count, both max leads and
\* the remembered previous leader as they were.
C8_NoAdvantageNoChange ==
    [][(EventReplayed /\ CarriesNoAdvantage(timeline'[Len(timeline')])) =>
           /\ tie_count' = tie_count
           /\ lead_changes' = lead_changes
           /\ max_home_lead' = max_home_lead
           /\ max_away_lead' = max_away_lead
           /\ previous_leader' = previous_leader]_vars

\* A row is emitted for a timeline with an event without advantage and a
\* non-record between two events that carry one.
C8_Witness ==
    /\ RowEmitted
    /\ LastRow.LeadChanges = 1
    /\ \E i \in 1..Len(timeline) : \E j \in (i + 1)..Len(timeline) :
          /\ NonZero(timeline, i) /\ NonZero(timeline, j)
          /\ \E k \in (i + 1)..(j - 1) : CarriesNoAdvantage(timeline[k])

NoUsableEvent(t) == \A i \in 1..Len(t) : ~IsNumber(t, i)

AllZero(r) ==
    /\ r.TieScores = 0
    /\ r.LeadChanges = 0
    /\ r.MaxHomeLead = 0
    /\ r.MaxAwayLead = 0
    /\ r.BiggestLead = 0

\* C9: no exception is raised, the table returned has one row per game of
\* the input, and the row of a game without usable event (field missing,
\* null, unparsable, no list, or only malformed entries) has all metrics 0.
C9_RowPerGameNoException ==
    /\ an_pc # "raised"
    /\ an_pc = "returned" => Len(game_analyses) = data_len
    /\ (RowEmitted /\ NoUsableEvent(timeline)) => AllZero(LastRow)

\* What holds of the code: unless an entry carries an advantage that is no
\* number, the same.
C9_RowPerGameUnlessRaised ==
    /\ an_pc = "raised" =>
          (timeline # <<>> /\ timeline[Len(timeline)].adv_kind = "str")
    /\ an_pc = "returned" => Len(game_analyses) = data_len
    /\ (RowEmitted /\ NoUsableEvent(timeline)) => AllZero(LastRow)

\* ------------------------------------------------------------------------
\* get_game_top_scorer (and the same replay inside get_top_scorer_by_game)
\* ------------------------------------------------------------------------
Players == {"P1", "P2"}

\* The action labels of the events.  "notext" is an 'EventAction' that is
\* no text (None): `marker in action` raises TypeError on it.
ScoringLabels == {"1P Points Added", "2P Points Added", "3P Points Added"}

ActionLabels == ScoringLabels \cup {"Foul Added", "notext"}

ActorEvent(actor, action) ==
    [isdict |-> TRUE, adv_kind |-> "none", adv |-> 0,
     has_keys |-> TRUE, actor |-> actor, action |-> action, team |-> "A"]

\* Entries of a GameEvents list: a non-record, the events of two players
\* under every label, and a basket of an actor without name.
ScorerEvents ==
    {NotARecord} \cup {ActorEvent(p, a) : p \in Players, a \in ActionLabels}
                 \cup {ActorEvent("", "2P Points Added")}

SeqsUpTo(S, n) == UNION {[1..k -> S] : k \in 0..n}

ScorerGames ==
    {[GameEvents |-> f, events |-> t] : f \in {"text", "list"}, t \in SeqsUpTo(ScorerEvents, MaxEvents)}
    \cup {[GameEvents |-> f, events |-> <<>>] : f \in EventForms \ {"text", "list"}}

\* points = 1 / 2 / 3 by the marker the label contains, else 0
PointsOfAction(action) ==
    IF action = "1P Points Added" THEN 1
    ELSE IF action = "2P Points Added" THEN 2
    ELSE IF action = "3P Points Added" THEN 3
    ELSE 0

HasPlayer(d, name) == \E i \in 1..Len(d) : d[i].name = name

\* if player_name not in player_stats: player_stats[player_name] = {...}
\* player_stats[player_name]['points'] += points; ...['team'] = team
AddPoints(d, name, points, team) ==
    LET d2 == IF HasPlayer(d, name) THEN d
              ELSE Append(d, [name |-> name, points |-> 0, team |-> team])
    IN  [i \in 1..Len(d2) |->
            IF d2[i].name = name
            THEN [d2[i] EXCEPT !.points = @ + points, !.team = team]
            ELSE d2[i]]

\* max(player_stats.items(), key=lambda x: x[1]['points']): the first of
\* the maximal items in insertion order
MaxItem(d) ==
    d[CHOOSE i \in 1..Len(d) :
        /\ \A j \in 1..Len(d) : d[j].points <= d[i].points
        /\ \A j \in 1..(i - 1) : d[j].points < d[i].points]

InitScorer ==
    /\ sc_pc = "start"
    /\ sc_game \in ScorerGames
    /\ sc_i = 0
    /\ player_stats = <<>>
    /\ sc_result = NoTopScorer
    /\ IdleExcept("sc")

\* try: if isinstance(game['GameEvents'], str): literal_eval(...)
\* Only a text that decodes to a list is replayed; a missing column or a
\* text that does not parse raises into the bare except, and any other
\* value, a native list too, skips the block: all return the default.
ScorerStart ==
    /\ sc_pc = "start"
    /\ sc_pc' = IF sc_game.GameEvents = "text" THEN "replay" ELSE "done"
    /\ UNCHANGED <<sc_game, sc_i, player_stats, sc_result, not_sc_vars>>

\* for event in events_data: one event
ScorerEvent ==
    /\ sc_pc = "replay"
    /\ sc_i < Len(sc_game.events)
    /\ sc_i' = sc_i + 1
    /\ LET event == sc_game.events[sc_i + 1]
           points == PointsOfAction(event.action)
       IN  IF ~(event.isdict /\ event.has_keys)
           THEN UNCHANGED <<sc_pc, player_stats>>
           ELSE IF event.action = "notext"
           THEN /\ sc_pc' = "done"
                /\ UNCHANGED player_stats
           ELSE IF points > 0 /\ event.actor # ""
           THEN /\ player_stats' = AddPoints(player_stats, event.actor, points, event.team)
                /\ UNCHANGED sc_pc
           ELSE UNCHANGED <<sc_pc, player_stats>>
    /\ UNCHANGED <<sc_game, sc_result, not_sc_vars>>

\* the events are exhausted: if player_stats: return the top player
ScorerFinish ==
    /\ sc_pc = "replay"
    /\ sc_i = Len(sc_game.events)
    /\ sc_result' = IF player_stats # <<>> THEN MaxItem(player_stats) ELSE NoTopScorer
    /\ sc_pc' = "done"
    /\ UNCHANGED <<sc_game, sc_i, player_stats, not_sc_vars>>

NextScorer == ScorerStart \/ ScorerEvent \/ ScorerFinish

SpecScorer == InitScorer /\ [][NextScorer]_vars

\* ------------------------------------------------------------------------
\* Claims about get_game_top_scorer
\* ------------------------------------------------------------------------
IsBasket(t, i) ==
    /\ t[i].isdict /\ t[i].has_keys
    /\ t[i].action \in ScoringLabels
    /\ t[i].actor # ""

BasketValue(e) ==
    CASE e.action = "1P Points Added" -> 1
      [] e.action = "2P Points Added" -> 2
      [] e.action = "3P Points Added" -> 3

RECURSIVE TotalOf(_, _, _)
TotalOf(t, p, n) ==
    IF n = 0 THEN 0
    ELSE TotalOf(t, p, n - 1) + (IF IsBasket(t, n) /\ t[n].actor = p THEN BasketValue(t[n]) ELSE 0)

Scorers(t) == {t[i].actor : i \in {k \in 1..Len(t) : IsBasket(t, k)}}

FirstBasket(t, p) ==
    CHOOSE i \in 1..Len(t) :
        /\ IsBasket(t, i) /\ t[i].actor = p
        /\ \A j \in 1..(i - 1) : ~(IsBasket(t, j) /\ t[j].actor = p)

IsTopScorerOf(r, t) ==
    IF Scorers(t) = {}
    THEN r.name = "None" /\ r.points = 0
    ELSE /\ r.name \in Scorers(t)
         /\ r.points = TotalOf(t, r.name, Len(t))
         /\ \A q \in Scorers(t) \ {r.name} :
               \/ TotalOf(t, q, Len(t)) < r.points
               \/ /\ TotalOf(t, q, Len(t)) = r.points
                  /\ FirstBasket(t, r.name) < FirstBasket(t, q)

\* C10: the top scorer reported for a game is an actor whose points (1, 2 or
\* 3 per scoring event) are at least every other actor's, the earliest to
\* score among those with the maximum; with no scoring event it is name
\* None, points 0.
C10_TopScorer == sc_pc = "done" => IsTopScorerOf(sc_result, sc_game.events)

\* What holds of the code: the same for a game whose GameEvents is the
\* text of a list in which every action label is a text.
C10_TopScorerOfTextTimelines ==
    (/\ sc_pc = "done"
     /\ sc_game.GameEvents = "text"
     /\ \A i \in 1..Len(sc_game.events) : sc_game.events[i].action # "notext")
        => IsTopScorerOf(sc_result, sc_game.events)

\* Two players end level and the one reported scored first but not last.
C10_TieReached ==
    /\ sc_pc = "done"
    /\ sc_game.GameEvents = "text"
    /\ Len(player_stats) = 2
    /\ player_stats[1].points = player_stats[2].points
    /\ sc_result.name = player_stats[1].name
    /\ IsBasket(sc_game.events, Len(sc_game.events))
    /\ sc_game.events[Len(sc_game.events)].actor = player_stats[1].name

\* ------------------------------------------------------------------------
\* The GameEvents field as a native list and as its text
\* ------------------------------------------------------------------------
\* player_stats after the first n events of the decoded list t
RECURSIVE StatsAfter(_, _)
StatsAfter(t, n) ==
    IF n = 0 THEN <<>>
    ELSE LET d == StatsAfter(t, n - 1)
             event == t[n]
             points == PointsOfAction(event.action)
         IN  IF event.isdict /\ event.has_keys /\ points > 0 /\ event.actor # ""
             THEN AddPoints(d, event.actor, points, event.team)
             ELSE d

\* `marker in action` raises on a label that is no text; the bare except
\* then falls through to the default
ReplayRaises(t) ==
    \E i \in 1..Len(t) : t[i].isdict /\ t[i].has_keys /\ t[i].action = "notext"

\* get_game_top_scorer of a game whose GameEvents is the text of the list t
TopScorerOfText(t) ==
    IF ReplayRaises(t) \/ StatsAfter(t, Len(t)) = <<>>
    THEN NoTopScorer
    ELSE MaxItem(StatsAfter(t, Len(t)))

\* The replay of a text-form game returns TopScorerOfText of its list.
ScorerTextRun ==
    (sc_pc = "done" /\ sc_game.GameEvents = "text")
        => sc_result = TopScorerOfText(sc_game.events)

\* C11: a game's top scorer computed from the native GameEvents list equals
\* the top scorer computed from the text form of the same list.
C11_NativeEqualsText ==
    (sc_pc = "done" /\ sc_game.GameEvents = "list")
        => sc_result = TopScorerOfText(sc_game.events)

\* ------------------------------------------------------------------------
\* parse_referees and parse_location_name
\* ------------------------------------------------------------------------
MaxRefs == 2

Referees == {"R1", "R2"}

\* An entry of a Referres list: a record with or without the key
\* 'Referee Name', or a value that is no record.
Ref(isdict, has_name, name) == [isdict |-> isdict, has_name |-> has_name, name |-> name]

RefEntries ==
    {Ref(FALSE, FALSE, "")} \cup {Ref(TRUE, FALSE, "")} \cup {Ref(TRUE, TRUE, r) : r \in Referees}

\* The values passed to the two parsers.  form: "nan" a null or absent
\* value; "plain_text" a text that is no literal ('Arena'); "bad_braces" a
\* text in braces that does not parse; "dict_text" / "dict" a record, as
\* text or native, with key Name (name # "") or without; "list_text" /
\* "list" a list of entries, as text or native.
Value(form, items, name) == [form |-> form, items |-> items, name |-> name]

ParserInputs ==
    {Value(f, <<>>, "") : f \in {"nan", "plain_text", "bad_braces"}}
    \cup {Value(f, <<>>, n) : f \in {"dict_text", "dict"}, n \in {"", "Arena"}}
    \cup {Value(f, t, "") : f \in {"list_text", "list"}, t \in SeqsUpTo(RefEntries, MaxRefs)}

\* `if pd.isna(x):` outside the try.  pd.isna of a scalar, a text or a dict
\* is a bool; of a native list it is an array with one element per entry,
\* and the truth value of an array is an error for two entries or more, the
\* element itself for one entry, and for none either False or an error,
\* by the numpy version.  The set of outcomes: TRUE, FALSE, "error".
IsNaOutcomes(x) ==
    IF x.form = "nan" THEN {"true"}
    ELSE IF x.form # "list" THEN {"false"}
    ELSE IF Len(x.items) >= 2 THEN {"error"}
    ELSE IF Len(x.items) = 1 THEN {"false"}
    ELSE {"false", "error"}

IsDictEntry(ref) == ref.isdict

\* [ref.get('Referee Name', '') for ref in ref_data if isinstance(ref, dict)]
RefereeNames(items) ==
    LET dicts == SelectSeq(items, IsDictEntry)
    IN  [i \in 1..Len(dicts) |-> dicts[i].name]

\* the try block of parse_referees, with its except
ParseReferees(x) ==
    IF x.form \in {"list_text", "list"} THEN RefereeNames(x.items) ELSE <<>>

\* the try block of parse_location_name, with its except.  "<text>" is the
\* text passed, returned as it is; "<str>" the str() of a native list.
ParseLocationName(x) ==
    CASE x.form \in {"plain_text", "list_text"} -> "<text>"
      [] x.form = "bad_braces" -> "TBD"
      [] x.form \in {"dict_text", "dict"} -> IF x.name = "" THEN "TBD" ELSE x.name
      [] x.form = "list" -> "<str>"
      [] OTHER -> "TBD"

InitParse ==
    /\ pr_pc = "call"
    /\ pr_fn \in {"parse_referees", "parse_location_name"}
    /\ pr_input \in ParserInputs
    /\ pr_output = <<>>
    /\ IdleExcept("pr")

CallParseReferees ==
    /\ pr_pc = "call"
    /\ pr_fn = "parse_referees"
    /\ \E isna \in IsNaOutcomes(pr_input) :
          /\ pr_pc' = IF isna = "error" THEN "raised" ELSE "returned"
          /\ pr_output' = IF isna = "false" THEN ParseReferees(pr_input) ELSE <<>>
    /\ UNCHANGED <<pr_fn, pr_input, not_pr_vars>>

CallParseLocationName ==
    /\ pr_pc = "call"
    /\ pr_fn = "parse_location_name"
    /\ \E isna \in IsNaOutcomes(pr_input) :
          /\ pr_pc' = IF isna = "error" THEN "raised" ELSE "returned"
          /\ pr_output' = IF isna = "false" THEN ParseLocationName(pr_input)
                          ELSE IF isna = "true" THEN "TBD" ELSE <<>>
    /\ UNCHANGED <<pr_fn, pr_input, not_pr_vars>>

NextParse == CallParseReferees \/ CallParseLocationName

SpecParse == InitParse /\ [][NextParse]_vars

\* C12: parse_referees and parse_location_name never raise, whatever the
\* input: a null, a text that does not parse, a serialized text, a native
\* list of any length or a dict.
C12_ParsersNeverRaise == pr_pc # "raised"

\* What holds of the code: no input but a native list makes them raise, and
\* they return the names of the record entries, or the name, or the default.
C12_ParsersRaiseOnlyOnNativeLists ==
    /\ pr_pc = "raised" => (pr_input.form = "list" /\ Len(pr_input.items) # 1)
    /\ (pr_pc = "returned" /\ pr_fn = "parse_referees") =>
          /\ Len(pr_output) <= Len(pr_input.items)
          /\ \A i \in 1..Len(pr_output) : pr_output[i] \in Referees \cup {""}
    /\ (pr_pc = "returned" /\ pr_fn = "parse_location_name") =>
          pr_output \in {"TBD", "Arena", "<text>", "<str>"}

\* ------------------------------------------------------------------------
\* extract_all_player_stats
\* ------------------------------------------------------------------------
MaxPlayers == 2

\* The value under 'Starting Five' of a player entry: no such key, a
\* boolean, or a text.
StartingValues == {"absent", "bool:True", "bool:False", "str:true", "str:false"}

Player(isdict, has_name, name, starting) ==
    [isdict |-> isdict, has_name |-> has_name, name |-> name, starting |-> starting]

NotAPlayer == Player(FALSE, FALSE, "", "absent")

\* Entries of a Players list: a non-record, P1 under every 'Starting Five'
\* value, P2, and a record without 'Player Name'.
PlayerEntries ==
    {NotAPlayer} \cup {Player(TRUE, TRUE, "P1", s) : s \in StartingValues}
                 \cup {Player(TRUE, TRUE, "P2", "absent"), Player(TRUE, FALSE, "", "absent")}

\* An entry of a Teams list.  names: which of 'Team Name' / 'Team Name
\* Short' it has; players: "absent" no key 'Players', "null" the key with
\* None under it, "list" the key with a list.
Team(isdict, names, players, Players_) ==
    [isdict |-> isdict, names |-> names, players |-> players, Players |-> Players_]

NotATeam == Team(FALSE, "none", "absent", <<>>)

TeamEntriesOver(rosters) ==
    {NotATeam, Team(TRUE, "full", "absent", <<>>), Team(TRUE, "full", "null", <<>>)}
    \cup {Team(TRUE, n, "list", r) : n \in {"full", "short", "none"}, r \in rosters}

\* A row of data, by its Teams field: the form of the field as for
\* GameEvents, and the list it holds or is the text of
TeamsFieldsOver(rosters) ==
    {[Teams |-> f, teams |-> <<>>] : f \in EventForms}
    \cup {[Teams |-> f, teams |-> <<t>>] : f \in {"text", "list"}, t \in TeamEntriesOver(rosters)}

RosterGames == TeamsFieldsOver(SeqsUpTo(PlayerEntries, MaxPlayers))

TableGames ==
    TeamsFieldsOver({<<Player(TRUE, TRUE, "P1", "str:true")>>,
                     <<Player(TRUE, TRUE, "P1", "absent"), Player(TRUE, TRUE, "P2", "absent")>>})

\* team.get('Team Name', team.get('Team Name Short', 'Unknown'))
TeamName(team) ==
    CASE team.names = "full" -> "A"
      [] team.names = "short" -> "A-short"
      [] OTHER -> "Unknown"

\* 'StartingFive': player.get('Starting Five', 'false') == 'true'
StartingFive(player) ==
    (IF player.starting = "absent" THEN "str:false" ELSE player.starting) = "str:true"

\* the record of one player entry (the numeric columns are copies of the
\* entry's fields, default 0, and are left out)
PlayerRecord(game_id, team_name, player) ==
    [GameId |-> game_id,
     PlayerName |-> IF player.has_name THEN player.name ELSE "Unknown",
     Team |-> team_name,
     StartingFive |-> StartingFive(player)]

\* for player in team.get('Players', []): the records of the first n entries
RECURSIVE PlayerRecords(_, _, _, _)
PlayerRecords(game_id, team_name, players, n) ==
    IF n = 0 THEN <<>>
    ELSE LET before == PlayerRecords(game_id, team_name, players, n - 1)
         IN  IF players[n].isdict
             THEN Append(before, PlayerRecord(game_id, team_name, players[n]))
             ELSE before

\* for team in teams_data: the records of the first n entries
RECURSIVE TeamRecords(_, _, _)
TeamRecords(game_id, teams, n) ==
    IF n = 0 THEN <<>>
    ELSE LET before == TeamRecords(game_id, teams, n - 1)
             team == teams[n]
         IN  IF team.isdict /\ team.players = "list"
             THEN before \o PlayerRecords(game_id, TeamName(team), team.Players, Len(team.Players))
             ELSE before

\* iterating None raises TypeError, outside every try
IterationRaises(teams) ==
    \E i \in 1..Len(teams) : teams[i].isdict /\ teams[i].players = "null"

\* the forms of the Teams field on which the try block raises: a missing
\* column, a text that does not parse
TryRaises(form) == form \in {"missing", "badtext"}

\* teams_data after the try block: the decoded or native value, or what
\* it was before when the block raised
TeamsDataAfter(g, before) ==
    IF TryRaises(g.Teams) THEN before
    ELSE [islist |-> ParsesToList(g.Teams), items |-> g.teams]

\* except: pass
ExceptPasses(form) == FALSE

\* except: continue
ExceptContinues(form) == TryRaises(form)

\* the two `continue` before the loop over the teams
SkipsGame(g, td) == ExceptContinues(g.Teams) \/ ~td.islist

Unassigned == [islist |-> FALSE, items |-> <<>>]

PlayersInit(lens) ==
    /\ pl_pc = "start"
    /\ pl_len \in lens
    /\ pl_data = <<>>
    /\ teams_data = Unassigned
    /\ all_players = <<>>
    /\ IdleExcept("pl")

\* if data.empty: return pd.DataFrame()
PlayersStart ==
    /\ pl_pc = "start"
    /\ pl_pc' = IF pl_len = 0 THEN "returned" ELSE "row"
    /\ UNCHANGED <<pl_len, pl_data, teams_data, all_players, not_pl_vars>>

\* for _, game in data.iterrows(): one row, with the loops over its teams
\* and their players.  GameId is the unique identifier of the row.
PlayersReadRow(games) ==
    /\ pl_pc = "row"
    /\ Len(pl_data) < pl_len
    /\ \E g \in games :
          LET row == [GameId |-> Len(pl_data) + 1, Teams |-> g.Teams, teams |-> g.teams]
              td == TeamsDataAfter(row, teams_data)
          IN  /\ pl_data' = Append(pl_data, row)
              /\ teams_data' = td
              /\ IF SkipsGame(row, td)
                 THEN UNCHANGED <<pl_pc, all_players>>
                 ELSE IF IterationRaises(td.items)
                 THEN /\ pl_pc' = "raised"
                      /\ UNCHANGED all_players
                 ELSE /\ all_players' =
                            all_players \o TeamRecords(row.GameId, td.items, Len(td.items))
                      /\ UNCHANGED pl_pc
    /\ UNCHANGED <<pl_len, not_pl_vars>>

\* return pd.DataFrame(all_players)
PlayersReturn ==
    /\ pl_pc = "row"
    /\ Len(pl_data) = pl_len
    /\ pl_pc' = "returned"
    /\ UNCHANGED <<pl_len, pl_data, teams_data, all_players, not_pl_vars>>

\* One game, rosters of every shape.
InitRoster == PlayersInit({1})

NextRoster == PlayersStart \/ PlayersReadRow(RosterGames) \/ PlayersReturn

SpecRoster == InitRoster /\ [][NextRoster]_vars

\* A table of up to MaxGames games of few shapes.
InitPlayers == PlayersInit(0..MaxGames)

NextPlayers == PlayersStart \/ PlayersReadRow(TableGames) \/ PlayersReturn

SpecPlayers == InitPlayers /\ [][NextPlayers]_vars

\* ------------------------------------------------------------------------
\* Claims about extract_all_player_stats
\* ------------------------------------------------------------------------
GoodTeams(row) == ParsesToList(row.Teams)

\* the table returned for the rows d, when none of them makes it raise
RECURSIVE ExtractOf(_, _)
ExtractOf(d, n) ==
    IF n = 0 THEN <<>>
    ELSE ExtractOf(d, n - 1) \o
         (IF GoodTeams(d[n]) THEN TeamRecords(d[n].GameId, d[n].teams, Len(d[n].teams)) ELSE <<>>)

WithoutBadGames(d) == SelectSeq(d, GoodTeams)

C13_RowsAsIfAbsent ==
    pl_pc \in {"row", "returned"} =>
        all_players = ExtractOf(WithoutBadGames(pl_data), Len(WithoutBadGames(pl_data)))

C13_BadGameStep ==
    (Len(pl_data') = Len(pl_data) + 1 /\ ~GoodTeams(pl_data'[Len(pl_data')]))
        => (all_players' = all_players /\ pl_pc' = "row")

\* C13: a game whose Teams field does not parse, or is no list, adds no row
\* and raises nothing, and the rows of the other games are those the table
\* without that game gives.
C13_BadGameContributesNothing == []C13_RowsAsIfAbsent /\ [][C13_BadGameStep]_vars

\* A table whose first game has players and whose second has a Teams text
\* that does not parse, extracted to the end.
C13_Witness ==
    /\ pl_pc = "returned"
    /\ Len(pl_data) = 2
    /\ pl_data[1].Teams = "text" /\ pl_data[2].Teams = "badtext"
    /\ Len(all_players) = 2

RowKey(r) == <<r.PlayerName, r.Team, r.GameId>>

\* C14: the fact table holds one row per (player, team, game): no two rows
\* share PlayerName, Team and GameId, whatever the input table.
C14_OneRowPerPlayerTeamGame ==
    \A i, j \in 1..Len(all_players) :
        i # j => RowKey(all_players[i]) # RowKey(all_players[j])

\* the player entries of a row that are records, in roster order
SourcePlayers(row) ==
    IF GoodTeams(row) /\ Len(row.teams) = 1 /\ row.teams[1].isdict /\ row.teams[1].players = "list"
    THEN SelectSeq(row.teams[1].Players, IsDictEntry)
    ELSE <<>>

\* What holds of the code: one row per roster entry that is a record, in
\* roster order, named as the entry or Unknown.
C14_OneRowPerRosterEntry ==
    (pl_pc = "returned" /\ Len(pl_data) = 1) =>
        LET src == SourcePlayers(pl_data[1])
        IN  /\ Len(all_players) = Len(src)
            /\ \A i \in 1..Len(src) :
                  all_players[i].PlayerName = (IF src[i].has_name THEN src[i].name ELSE "Unknown")

MarkedStarter(player) == player.starting \in {"bool:True", "str:true"}

\* C15: a row's StartingFive is true exactly when the roster marks the
\* player as a starter, by the boolean or by its text, and false when the
\* roster has no such mark.
C15_StartingFiveAsMarked ==
    (pl_pc = "returned" /\ Len(pl_data) = 1) =>
        LET src == SourcePlayers(pl_data[1])
        IN  \A i \in 1..Len(all_players) :
                all_players[i].StartingFive = MarkedStarter(src[i])

\* What holds of the code: StartingFive is true exactly for the text 'true'.
C15_StartingFiveOnlyForText ==
    (pl_pc = "returned" /\ Len(pl_data) = 1) =>
        LET src == SourcePlayers(pl_data[1])
        IN  \A i \in 1..Len(all_players) :
                all_players[i].StartingFive = (src[i].starting = "str:true")

\* ------------------------------------------------------------------------
\* Queries with nothing to report
\* ------------------------------------------------------------------------
\* C16: a query with nothing to report returns an empty result and never
\* raises: calculate_standings_by_division for a division with no games
\* returns an empty table.
C16_EmptyDivisionReturnsTable == st_pc # "raised"

\* What holds of the code: it raises for the table without rows only, and
\* every table with a row yields a league table.
C16_RaisesOnlyWithoutRows ==
    /\ st_pc = "raised" => st_rows = 0
    /\ st_pc = "done" => (st_rows > 0 /\ standings_df # <<>>)

\* ------------------------------------------------------------------------
\* Ranked queries: get_top_scorers (groupby, sort_values, head) and
\* get_biggest_wins / get_most_tie_scores (nlargest)
\* ------------------------------------------------------------------------
MaxRanked == 3

Min(a, b) == IF a <= b THEN a ELSE b

\* DataFrame.head(n), n >= 0
FirstRows(rows, n) == SubSeq(rows, 1, Min(n, Len(rows)))

\* The rows of the player fact table: GameId is given by the position.
FactKinds == {[PlayerName |-> p, Team |-> "A", TotalPoints |-> t] : p \in Players, t \in 0..2}

\* The rows of the game analysis table: WinMargin is NaN for a game without
\* final scores, TieScores a count.
AnalysisKinds == {[WinMargin |-> m, TieScores |-> t] : m \in {Num(0), Num(1), NaN}, t \in 0..1}

WithGameIds(kinds) == [i \in 1..Len(kinds) |-> [GameId |-> i] @@ kinds[i]]

RankedTables(kinds) == {WithGameIds(t) : t \in SeqsUpTo(kinds, MaxRanked)}

\* the values of top_n: none, some, all and more than all rows
TopNs == 0..(MaxRanked + 1)

\* groupby keys come out sorted
PlayerOrder == <<"P1", "P2">>

Sum(rows, col, n) == LET S[k \in 0..n] == IF k = 0 THEN 0 ELSE S[k - 1] + rows[k][col] IN S[n]

\* player_stats.groupby(['PlayerName', 'Team']).agg({'TotalPoints': 'sum',
\* 'GameId': 'count'}).reset_index(), GameId renamed GamesPlayed
GroupByPlayer(rows) ==
    LET Of(p) == LET Is(r) == r.PlayerName = p IN SelectSeq(rows, Is)
        Present(p) == Of(p) # <<>>
        names == SelectSeq(PlayerOrder, Present)
    IN  [i \in 1..Len(names) |->
            [PlayerName |-> names[i], Team |-> "A",
             TotalPoints |-> Sum(Of(names[i]), "TotalPoints", Len(Of(names[i]))),
             GamesPlayed |-> Len(Of(names[i]))]]

\* sort_values(col, ascending=False) of a whole-number column: rows of
\* equal value keep their order
RECURSIVE SortDesc(_, _)
SortDesc(rows, col) ==
    IF rows = <<>> THEN <<>>
    ELSE LET n == Len(rows)
             sorted == SortDesc(SubSeq(rows, 1, n - 1), col)
             last == rows[n]
             k == Cardinality({i \in 1..(n - 1) : sorted[i][col] >= last[col]})
         IN  SubSeq(sorted, 1, k) \o <<last>> \o SubSeq(sorted, k + 1, n - 1)

\* the rows cut before they are sorted
HeadThenSort(rows, col, n) == SortDesc(FirstRows(rows, n), col)

\* .sort_values(col, ascending=False).head(top_n)
SortThenHead(rows, col, n) == FirstRows(SortDesc(rows, col), n)

\* the value a row is ranked by, as a nullable number
KeyOf(row, col) == IF col = "WinMargin" THEN row.WinMargin ELSE Num(row[col])

\* the k largest of rows without NaN, largest first, the first occurrence
\* first among equals (keep='first')
RECURSIVE PickLargest(_, _, _)
PickLargest(rows, col, k) ==
    IF k = 0 \/ rows = <<>> THEN <<>>
    ELSE LET i == CHOOSE i \in 1..Len(rows) :
                    /\ \A j \in 1..Len(rows) : KeyOf(rows[j], col).v <= KeyOf(rows[i], col).v
                    /\ \A j \in 1..(i - 1) : KeyOf(rows[j], col).v < KeyOf(rows[i], col).v
             rest == SubSeq(rows, 1, i - 1) \o SubSeq(rows, i + 1, Len(rows))
         IN  <<rows[i]>> \o PickLargest(rest, col, k - 1)

\* nlargest with the rows without a value put first
NLargestNullsFirst(rows, col, n) ==
    IF n <= 0 THEN <<>>
    ELSE LET HasValue(r) == ~KeyOf(r, col).nan
             IsNull(r) == KeyOf(r, col).nan
             dropped == SelectSeq(rows, HasValue)
         IN  FirstRows(SelectSeq(rows, IsNull) \o PickLargest(dropped, col, Min(n, Len(dropped))), n)

\* DataFrame.nlargest(n, col): the rows with a value ranked, then the rows
\* with NaN in table order, cut at n
NLargest(rows, col, n) ==
    IF n <= 0 THEN <<>>
    ELSE LET HasValue(r) == ~KeyOf(r, col).nan
             IsNull(r) == KeyOf(r, col).nan
             dropped == SelectSeq(rows, HasValue)
         IN  FirstRows(PickLargest(dropped, col, Min(n, Len(dropped))) \o SelectSeq(rows, IsNull), n)

\* each query as a function of its fact table and top_n; an empty fact
\* table returns the empty frame
QueryResult(query, rows, n) ==
    IF rows = <<>> THEN <<>>
    ELSE CASE query = "get_top_scorers" -> SortThenHead(GroupByPlayer(rows), "TotalPoints", n)
           [] query = "get_biggest_wins" -> NLargest(rows, "WinMargin", n)
           [] query = "get_most_tie_scores" -> NLargest(rows, "TieScores", n)

InitRank ==
    /\ rk_pc = "call"
    /\ rk_query \in {"get_top_scorers", "get_biggest_wins", "get_most_tie_scores"}
    /\ rk_table \in RankedTables(IF rk_query = "get_top_scorers" THEN FactKinds ELSE AnalysisKinds)
    /\ rk_n \in TopNs
    /\ rk_out = <<>>
    /\ IdleExcept("rk")

CallQuery(query) ==
    /\ rk_pc = "call"
    /\ rk_query = query
    /\ rk_out' = QueryResult(query, rk_table, rk_n)
    /\ rk_pc' = "returned"
    /\ UNCHANGED <<rk_query, rk_table, rk_n, not_rk_vars>>

GetTopScorers == CallQuery("get_top_scorers")

GetBiggestWins == CallQuery("get_biggest_wins")

GetMostTieScores == CallQuery("get_most_tie_scores")

NextRank == GetTopScorers \/ GetBiggestWins \/ GetMostTieScores

SpecRank == InitRank /\ [][NextRank]_vars

\* ------------------------------------------------------------------------
\* Claims about the ranked queries
\* ------------------------------------------------------------------------
\* the query with no limit: top_n the number of rows of the fact table
Unlimited(query, rows) == QueryResult(query, rows, Len(rows))

\* C17: for every N >= 0 a ranked query returns at most N rows, and they
\* are the first N rows of what the query returns with no limit.
C17_TopNIsPrefix ==
    rk_pc = "returned" =>
        /\ Len(rk_out) <= rk_n
        /\ rk_out = FirstRows(Unlimited(rk_query, rk_table), rk_n)

\* A limit of one cuts a ranking whose leader is not the first group.
C17_Witness ==
    /\ rk_pc = "returned"
    /\ rk_query = "get_top_scorers"
    /\ rk_n = 1
    /\ Len(GroupByPlayer(rk_table)) = 2
    /\ rk_out = <<[PlayerName |-> "P2", Team |-> "A", TotalPoints |-> 3, GamesPlayed |-> 2]>>

LeftOut(rows, out) ==
    {i \in 1..Len(rows) : \A j \in 1..Len(out) : out[j].GameId # rows[i].GameId}

\* out never increases in col, no row left out of it has more than a row
\* in it, and with one row asked for it holds a row no other exceeds
Ranked(rows, out, col, n) ==
    /\ \A i, j \in 1..Len(out) : i < j => ~FGt(KeyOf(out[j], col), KeyOf(out[i], col))
    /\ \A i \in LeftOut(rows, out) : \A j \in 1..Len(out) :
          ~FGt(KeyOf(rows[i], col), KeyOf(out[j], col))
    /\ (n = 1 /\ rows # <<>>) =>
          /\ Len(out) = 1
          /\ \A i \in 1..Len(rows) : ~FGt(KeyOf(rows[i], col), KeyOf(out[1], col))

\* a row without a value (the margin of a game without final scores) is
\* returned after every row with one, and only when none of those is left out
NullsLast(rows, out, col) ==
    \A j \in 1..Len(out) : KeyOf(out[j], col).nan =>
        /\ \A k \in (j + 1)..Len(out) : KeyOf(out[k], col).nan
        /\ \A i \in LeftOut(rows, out) : KeyOf(rows[i], col).nan

\* C20: get_biggest_wins returns the games in non-increasing WinMargin
\* order, no game left out has a larger WinMargin than a game returned, and
\* with n = 1 the game of the largest margin is returned; the same for
\* get_most_tie_scores on TieScores.
C20_LargestFirst ==
    /\ (rk_pc = "returned" /\ rk_query = "get_biggest_wins") =>
          /\ Ranked(rk_table, rk_out, "WinMargin", rk_n)
          /\ NullsLast(rk_table, rk_out, "WinMargin")
    /\ (rk_pc = "returned" /\ rk_query = "get_most_tie_scores") =>
          /\ Ranked(rk_table, rk_out, "TieScores", rk_n)
          /\ NullsLast(rk_table, rk_out, "TieScores")

\* Of three games the two with a margin are returned, the larger first,
\* and the game without final scores is left out.
C20_Witness ==
    /\ rk_pc = "returned"
    /\ rk_query = "get_biggest_wins"
    /\ rk_n = 2
    /\ Len(rk_table) = 3
    /\ rk_table[1].WinMargin = NaN
    /\ rk_table[2].WinMargin = Num(0)
    /\ rk_table[3].WinMargin = Num(1)
    /\ Len(rk_out) = 2
    /\ rk_out[1].GameId = 3 /\ rk_out[2].GameId = 2

\* ------------------------------------------------------------------------
\* extract_referee_stats
\* ------------------------------------------------------------------------
\* The Referres field of a row: missing values, a text that does not parse,
\* a non-list, the text of a list of up to MaxRefs entries, a native list.
ReferresFields ==
    {[Referres |-> f, refs |-> <<>>] : f \in {"nan", "badtext", "nonlist"}}
    \cup {[Referres |-> "text", refs |-> t] : t \in SeqsUpTo(RefEntries, MaxRefs)}
    \cup {[Referres |-> "list", refs |-> <<Ref(TRUE, TRUE, "R1")>>]}

FoulEvent == ActorEvent("P1", "Foul Added")

\* The GameEvents field of a row: timelines without, with one and with two
\* fouls as text, one as a native list, and a text that does not parse.
FoulTimelines ==
    {[GameEvents |-> "text", events |-> <<>>],
     [GameEvents |-> "text", events |-> <<FoulEvent>>],
     [GameEvents |-> "text", events |-> <<FoulEvent, ActorEvent("P2", "2P Points Added"), FoulEvent>>],
     [GameEvents |-> "list", events |-> <<FoulEvent>>],
     [GameEvents |-> "badtext", events |-> <<>>]}

RefereeGames ==
    {[Referres |-> r.Referres, refs |-> r.refs, GameEvents |-> e.GameEvents, events |-> e.events] :
        r \in ReferresFields, e \in FoulTimelines}

\* the numbers of rows of the tables
RefereeTableLens == {0, 1, 2}

\* if isinstance(event, dict) and 'EventAction' in event:
\*     if 'Foul Added' in event['EventAction']: total_fouls += 1
\* over the first n events
RECURSIVE CountFouls(_, _)
CountFouls(t, n) ==
    IF n = 0 THEN 0
    ELSE CountFouls(t, n - 1) +
         (IF t[n].isdict /\ t[n].has_keys /\ t[n].action = "Foul Added" THEN 1 ELSE 0)

\* total_fouls of a row: counted only for a GameEvents text that decodes
TotalFouls(g) == IF g.GameEvents = "text" THEN CountFouls(g.events, Len(g.events)) ELSE 0

\* the count written into the record of the k-th referee, counted again
\* for each referee
FoulsRecountedPerReferee(total_fouls, k) == total_fouls * k

\* 'FoulsCalledInGame': total_fouls, for the k-th entry of refs_data
FoulsRecorded(total_fouls, k) == total_fouls

\* for ref in refs_data: the records of the first n entries
RECURSIVE RefereeRecords(_, _, _, _)
RefereeRecords(game_id, refs, total_fouls, n) ==
    IF n = 0 THEN <<>>
    ELSE LET before == RefereeRecords(game_id, refs, total_fouls, n - 1)
         IN  IF refs[n].isdict /\ refs[n].has_name
             THEN Append(before, [RefereeName |-> refs[n].name, GameId |-> game_id,
                                  FoulsCalledInGame |-> FoulsRecorded(total_fouls, n),
                                  GamesRefereed |-> 1])
             ELSE before

InitReferees ==
    /\ rf_pc = "start"
    /\ rf_len \in RefereeTableLens
    /\ rf_data = <<>>
    /\ referee_stats = <<>>
    /\ IdleExcept("rf")

\* if data.empty: return pd.DataFrame()
RefereesStart ==
    /\ rf_pc = "start"
    /\ rf_pc' = IF rf_len = 0 THEN "returned" ELSE "row"
    /\ UNCHANGED <<rf_len, rf_data, referee_stats, not_rf_vars>>

\* for _, game in data.iterrows(): one row.  A Referres field that does
\* not decode to a list skips the row.
RefereesReadRow ==
    /\ rf_pc = "row"
    /\ Len(rf_data) < rf_len
    /\ \E g \in RefereeGames :
          LET row == [GameId |-> Len(rf_data) + 1] @@ g
          IN  /\ rf_data' = Append(rf_data, row)
              /\ referee_stats' =
                    IF ParsesToList(row.Referres)
                    THEN referee_stats \o
                         RefereeRecords(row.GameId, row.refs, TotalFouls(row), Len(row.refs))
                    ELSE referee_stats
    /\ UNCHANGED <<rf_pc, rf_len, not_rf_vars>>

\* return pd.DataFrame(referee_stats)
RefereesReturn ==
    /\ rf_pc = "row"
    /\ Len(rf_data) = rf_len
    /\ rf_pc' = "returned"
    /\ UNCHANGED <<rf_len, rf_data, referee_stats, not_rf_vars>>

NextReferees == RefereesStart \/ RefereesReadRow \/ RefereesReturn

SpecReferees == InitReferees /\ [][NextReferees]_vars

Squad == <<"P1", "P2", "P3", "P4", "P5", "P6", "P7">>

NameRank(name) == CHOOSE i \in 1..Len(Squad) : Squad[i] = name

Range(s) == {s[i] : i \in 1..Len(s)}

\* sorted(starters)
RECURSIVE Sorted(_)
Sorted(names) ==
    IF names = <<>> THEN <<>>
    ELSE LET n == Len(names)
             sorted == Sorted(SubSeq(names, 1, n - 1))
             last == names[n]
             k == Cardinality({i \in 1..(n - 1) : NameRank(sorted[i]) <= NameRank(last)})
         IN  SubSeq(sorted, 1, k) \o <<last>> \o SubSeq(sorted, k + 1, n - 1)

\* the (team, game) keys of the groups, in groupby order
GroupSlots == << <<"A", 1>>, <<"A", 2>>, <<"A", 3>>, <<"B", 4>> >>

\* the values of min_games: the default, and one below it
MinGames == {2, 3}

Group(slot, lineup, won, points) ==
    [Team |-> GroupSlots[slot][1], GameId |-> GroupSlots[slot][2],
     starters |-> lineup.starters, others |-> lineup.others,
     won |-> won, TotalPoints |-> points, TotalFouls |-> 1]

\* The same five starters in two roster orders, four starters and six.
StarterLineups ==
    {[starters |-> <<"P1", "P2", "P3", "P4", "P5">>, others |-> <<"P6">>],
     [starters |-> <<"P5", "P4", "P3", "P2", "P1">>, others |-> <<"P6">>],
     [starters |-> <<"P1", "P2", "P3", "P4">>, others |-> <<"P5", "P6">>],
     [starters |-> <<"P1", "P2", "P3", "P4", "P5", "P6">>, others |-> <<>>]}

\* One starting five with none, one or both of two further players.
SquadLineups ==
    {[starters |-> <<"P1", "P2", "P3", "P4", "P5">>, others |-> o] :
        o \in {<<>>, <<"P6">>, <<"P7">>, <<"P6", "P7">>}}

\* the slot of the group read last, 0 before the first
LastSlot(groups) ==
    IF groups = <<>> THEN 0
    ELSE LET g == groups[Len(groups)]
         IN  CHOOSE i \in 1..Len(GroupSlots) : GroupSlots[i] = <<g.Team, g.GameId>>

\* len(starters) == 5, taken as five or more
FiveOrMore(starters) == Len(starters) >= 5

\* len(starters) == 5
CompleteFive(starters) == Len(starters) = 5

\* the starters as listed, taken as the key
KeyAsListed(starters) == starters

\* starters_key = tuple(sorted(starters))
StartersKey(starters) == Sorted(starters)

KeyIndex(combos, key) ==
    IF \E i \in 1..Len(combos) : combos[i].key = key
    THEN CHOOSE i \in 1..Len(combos) : combos[i].key = key
    ELSE 0

\* the body of the loop over the groups
RecordGame(combos, group) ==
    IF ~CompleteFive(group.starters) THEN combos
    ELSE LET key == StartersKey(group.starters)
             with == IF KeyIndex(combos, key) # 0 THEN combos
                     ELSE Append(combos, [key |-> key, players |-> group.starters,
                                           team |-> group.Team, games |-> <<>>, wins |-> 0,
                                           total_points |-> 0, total_fouls |-> 0])
             i == KeyIndex(with, key)
         IN  [with EXCEPT ![i].games = Append(@, group.GameId),
                          ![i].wins = @ + (IF group.won THEN 1 ELSE 0),
                          ![i].total_points = @ + group.TotalPoints,
                          ![i].total_fouls = @ + group.TotalFouls]

\* round(n / d), halves to the even neighbour
RoundDiv(n, d) ==
    LET q == n \div d
        r == n % d
    IN  IF 2 * r < d THEN q
        ELSE IF 2 * r > d THEN q + 1
        ELSE IF q % 2 = 0 THEN q ELSE q + 1

\* One row of best_starting_fives. WinRate and EfficiencyScore are rounded to
\* one decimal and kept in tenths:
\*   win_rate + avg_points / 10 - avg_fouls / 2
\*     = (1000 * wins + total_points - 5 * total_fouls) / (10 * games_played)
CombinationRow(combo) ==
    LET games_played == Len(combo.games)
    IN  [Players |-> combo.players, Team |-> combo.team,
         GamesPlayed |-> games_played, Wins |-> combo.wins,
         Losses |-> games_played - combo.wins,
         WinRate |-> RoundDiv(1000 * combo.wins, games_played),
         EfficiencyScore |-> RoundDiv(1000 * combo.wins + combo.total_points
                                        - 5 * combo.total_fouls, games_played)]

BestCombinations(combos, min_games) ==
    LET Enough(combo) == Len(combo.games) >= min_games
        kept == SelectSeq(combos, Enough)
    IN  SortDesc([i \in 1..Len(kept) |-> CombinationRow(kept[i])], "EfficiencyScore")

\* the values of a sequence, each once, in the order they first appear
RECURSIVE Unique(_)
Unique(s) ==
    IF s = <<>> THEN <<>>
    ELSE LET rest == Unique(SubSeq(s, 1, Len(s) - 1))
             last == s[Len(s)]
         IN  IF last \in Range(rest) THEN rest ELSE Append(rest, last)

RECURSIVE Flatten(_)
Flatten(ss) == IF ss = <<>> THEN <<>> ELSE Head(ss) \o Flatten(Tail(ss))

\* player_stats['Team'].unique()
TeamsOf(groups) == Unique([i \in 1..Len(groups) |-> groups[i].Team])

\* list(team_data['PlayerName'].unique())
TeamPlayers(groups, team) ==
    LET OfTeam(g) == g.Team = team
        team_data == SelectSeq(groups, OfTeam)
    IN  Unique(Flatten([i \in 1..Len(team_data) |-> team_data[i].starters \o team_data[i].others]))

\* set(team_data[team_data['PlayerName'] == player]['GameId'])
GamesOf(groups, team, player) ==
    {groups[i].GameId : i \in {k \in 1..Len(groups) :
        groups[k].Team = team /\ player \in Range(groups[k].starters \o groups[k].others)}}

\* the pairs i < j of 1..n, in the order of the two nested loops
PairList(n) == Flatten([i \in 1..n |-> [j \in 1..(n - i) |-> <<i, i + j>>]])

\* the games two players share, taken as the games either played
GamesOfEither(groups, team, player1, player2) ==
    GamesOf(groups, team, player1) \cup GamesOf(groups, team, player2)

\* together_games = p1_games.intersection(p2_games)
TogetherGames(groups, team, player1, player2) ==
    GamesOf(groups, team, player1) \cap GamesOf(groups, team, player2)

\* the games of together_games the team won
TogetherWins(groups, team, together_games) ==
    Cardinality({groups[i].GameId : i \in {k \in 1..Len(groups) :
        groups[k].Team = team /\ groups[k].GameId \in together_games /\ groups[k].won}})

\* the rows appended to player_synergies for one team
TeamSynergies(groups, team, min_games) ==
    LET team_players == TeamPlayers(groups, team)
        Together(p) == TogetherGames(groups, team, team_players[p[1]], team_players[p[2]])
        Enough(p) == Cardinality(Together(p)) >= min_games
        pairs == SelectSeq(PairList(Len(team_players)), Enough)
    IN  [k \in 1..Len(pairs) |->
            [Player1 |-> team_players[pairs[k][1]], Player2 |-> team_players[pairs[k][2]],
             Team |-> team, GamesTogether |-> Cardinality(Together(pairs[k])),
             WinsTogether |-> TogetherWins(groups, team, Together(pairs[k])),
             WinRate |-> RoundDiv(1000 * TogetherWins(groups, team, Together(pairs[k])),
                                  Cardinality(Together(pairs[k])))]]

\* the rows of player_synergies before they are sorted and cut
AllSynergies(groups, min_games) ==
    LET teams == TeamsOf(groups)
    IN  Flatten([t \in 1..Len(teams) |-> TeamSynergies(groups, teams[t], min_games)])

\* the rows .head(20) keeps
SynergyRows == 20

\* synergies_df.sort_values('WinRate', ascending=False).head(20)
PlayerSynergies(groups, min_games) ==
    SortThenHead(AllSynergies(groups, min_games), "WinRate", SynergyRows)

CombinationsInit ==
    /\ cb_pc = "groups"
    /\ cb_min_games \in MinGames
    /\ cb_groups = <<>>
    /\ starting_five_combinations = <<>>
    /\ best_combinations = <<>>
    /\ player_synergies = <<>>
    /\ IdleExcept("cb")

\* one iteration of the loop of lines 1234-1258
CombinationsGroup(lineups) ==
    /\ cb_pc = "groups"
    /\ \E slot \in (LastSlot(cb_groups) + 1)..Len(GroupSlots), lineup \in lineups,
          won \in BOOLEAN :
          LET group == Group(slot, lineup, won, IF won THEN 2 ELSE 1)
          IN  /\ cb_groups' = Append(cb_groups, group)
              /\ starting_five_combinations' = RecordGame(starting_five_combinations, group)
    /\ UNCHANGED <<cb_pc, cb_min_games, best_combinations, player_synergies, not_cb_vars>>

\* lines 1210-1211: an empty fact table returns {}
CombinationsReturnEmpty ==
    /\ cb_pc = "groups"
    /\ cb_groups = <<>>
    /\ cb_pc' = "empty"
    /\ UNCHANGED <<cb_min_games, cb_groups, starting_five_combinations, best_combinations,
                   player_synergies, not_cb_vars>>

\* lines 1260-1324
CombinationsReturn ==
    /\ cb_pc = "groups"
    /\ cb_groups # <<>>
    /\ best_combinations' = BestCombinations(starting_five_combinations, cb_min_games)
    /\ player_synergies' = PlayerSynergies(cb_groups, cb_min_games)
    /\ cb_pc' = "returned"
    /\ UNCHANGED <<cb_min_games, cb_groups, starting_five_combinations, not_cb_vars>>

StartersGroup == CombinationsGroup(StarterLineups)

SquadGroup == CombinationsGroup(SquadLineups)

NextCombinations == StartersGroup \/ CombinationsReturnEmpty \/ CombinationsReturn

SpecCombinations == CombinationsInit /\ [][NextCombinations]_vars

NextSynergies == SquadGroup \/ CombinationsReturnEmpty \/ CombinationsReturn

SpecSynergies == CombinationsInit /\ [][NextSynergies]_vars

\* ---------------------------------------------------------------------------
\* Starting-five combinations
\* ---------------------------------------------------------------------------

HasFive(group) == Len(group.starters) = 5

\* the dict after the loop has read the groups
RECURSIVE CombinationsOf(_)
CombinationsOf(groups) ==
    IF groups = <<>> THEN <<>>
    ELSE RecordGame(CombinationsOf(SubSeq(groups, 1, Len(groups) - 1)), groups[Len(groups)])

C21_AsIfAbsent ==
    /\ starting_five_combinations = CombinationsOf(SelectSeq(cb_groups, HasFive))
    /\ cb_pc = "returned" =>
          best_combinations = BestCombinations(CombinationsOf(SelectSeq(cb_groups, HasFive)),
                                               cb_min_games)

C21_IncompleteStep ==
    (cb_groups' # cb_groups /\ ~HasFive(cb_groups'[Len(cb_groups')]))
        => starting_five_combinations' = starting_five_combinations

\* C21: a (team, game) group whose number of flagged starters is not exactly
\* five adds nothing to any starting-five combination: reading it leaves every
\* combination's games, wins, total_points and total_fouls as they were, and
\* the combinations and best_starting_fives are those of the table without it.
C21_IncompleteFiveAddsNothing == []C21_AsIfAbsent /\ [][C21_IncompleteStep]_vars

C21_Witness ==
    /\ cb_pc = "returned"
    /\ best_combinations # <<>>
    /\ \E i, j \in 1..Len(cb_groups) :
          /\ Len(cb_groups[i].starters) = 4
          /\ Len(cb_groups[j].starters) = 6

\* the games of the groups whose five starters are these players, in the order read
GamesOfFive(players) ==
    LET Same(g) == HasFive(g) /\ Range(g.starters) = Range(players)
        same == SelectSeq(cb_groups, Same)
    IN  [i \in 1..Len(same) |-> same[i].GameId]

\* C22: the same five starters, in whatever roster order, accumulate into one
\* combination, which holds the games of all the groups they started; a row
\* of best_starting_fives is a combination of at least min_games games, and
\* its Wins + Losses = GamesPlayed.
C22_OneCombinationPerFive ==
    LET combos == starting_five_combinations
    IN  /\ \A i, j \in 1..Len(combos) :
              Range(combos[i].players) = Range(combos[j].players) => i = j
        /\ \A i \in 1..Len(combos) : combos[i].games = GamesOfFive(combos[i].players)
        /\ \A k \in 1..Len(cb_groups) :
              HasFive(cb_groups[k]) =>
                  \E i \in 1..Len(combos) : Range(combos[i].players) = Range(cb_groups[k].starters)
        /\ cb_pc = "returned" =>
              \A r \in 1..Len(best_combinations) :
                  LET row == best_combinations[r]
                  IN  /\ row.GamesPlayed >= cb_min_games
                      /\ row.Wins + row.Losses = row.GamesPlayed
                      /\ row.Wins >= 0 /\ row.Losses >= 0
                      /\ \E i \in 1..Len(combos) :
                            /\ combos[i].players = row.Players
                            /\ Len(combos[i].games) = row.GamesPlayed
                            /\ combos[i].wins = row.Wins

C22_Witness ==
    /\ cb_pc = "returned"
    /\ cb_min_games = 3
    /\ \E r \in 1..Len(best_combinations) :
          /\ best_combinations[r].GamesPlayed = 3
          /\ best_combinations[r].Wins = 1
    /\ \E i, j \in 1..Len(cb_groups) :
          /\ HasFive(cb_groups[i]) /\ HasFive(cb_groups[j])
          /\ cb_groups[i].starters # cb_groups[j].starters

\* ---------------------------------------------------------------------------
\* Player synergies
\* ---------------------------------------------------------------------------

GroupPlayers(group) == Range(group.starters) \cup Range(group.others)

\* the games of the team in which both players appear
SharedGames(team, pair) ==
    {cb_groups[k].GameId : k \in {i \in 1..Len(cb_groups) :
        cb_groups[i].Team = team /\ pair \subseteq GroupPlayers(cb_groups[i])}}

SharedWins(team, pair) ==
    Cardinality({cb_groups[k].GameId : k \in {i \in 1..Len(cb_groups) :
        /\ cb_groups[i].Team = team
        /\ pair \subseteq GroupPlayers(cb_groups[i])
        /\ cb_groups[i].won}})

\* the unordered pairs of teammates who share at least min_games games
QualifyingPairs ==
    {tp \in {"A", "B"} \X {pair \in SUBSET Range(Squad) : Cardinality(pair) = 2} :
        Cardinality(SharedGames(tp[1], tp[2])) >= cb_min_games}

RowsOfPair(tp) ==
    {r \in 1..Len(player_synergies) :
        /\ player_synergies[r].Team = tp[1]
        /\ {player_synergies[r].Player1, player_synergies[r].Player2} = tp[2]}

RowPair(row) == <<row.Team, {row.Player1, row.Player2}>>

\* what every row of player_synergies says of its pair
SynergyRowsSound ==
    \A r \in 1..Len(player_synergies) :
        LET row == player_synergies[r]
        IN  /\ row.Player1 # row.Player2
            /\ RowPair(row) \in QualifyingPairs
            /\ RowsOfPair(RowPair(row)) = {r}
            /\ row.GamesTogether = Cardinality(SharedGames(row.Team, RowPair(row)[2]))
            /\ row.GamesTogether >= cb_min_games
            /\ row.WinsTogether = SharedWins(row.Team, RowPair(row)[2])
            /\ row.WinsTogether <= row.GamesTogether

\* C23 as stated: with the default min_games, player_synergies has one row
\* for every unordered pair of teammates who share at least 3 games, with
\* GamesTogether the number of shared games and WinsTogether <= GamesTogether,
\* and no row for a pair that shares fewer.
C23_EveryPairListed ==
    (cb_pc = "returned" /\ cb_min_games = 3) =>
        /\ SynergyRowsSound
        /\ \A tp \in QualifyingPairs : Cardinality(RowsOfPair(tp)) = 1

\* C23: player_synergies holds the 20 pairs of highest WinRate among the
\* unordered pairs of teammates who share at least min_games games (all of
\* them when there are no more than 20): each row is such a pair, listed once,
\* with GamesTogether the number of shared games and WinsTogether <=
\* GamesTogether; a qualifying pair left out has a WinRate no higher than any
\* row's; the rows are in non-increasing order of WinRate.
C23_TwentyBestPairsListed ==
    cb_pc = "returned" =>
        /\ SynergyRowsSound
        /\ Len(player_synergies) = Min(SynergyRows, Cardinality(QualifyingPairs))
        /\ \A tp \in QualifyingPairs :
              RowsOfPair(tp) = {} =>
                  \A r \in 1..Len(player_synergies) :
                      player_synergies[r].WinRate >=
                          RoundDiv(1000 * SharedWins(tp[1], tp[2]),
                                   Cardinality(SharedGames(tp[1], tp[2])))
        /\ \A r \in 1..(Len(player_synergies) - 1) :
              player_synergies[r].WinRate >= player_synergies[r + 1].WinRate

\* seven teammates share three games: 21 pairs qualify, 20 are listed
C23_Witness ==
    /\ cb_pc = "returned"
    /\ cb_min_games = 3
    /\ Cardinality(QualifyingPairs) > SynergyRows
    /\ Len(player_synergies) = SynergyRows

\* ---------------------------------------------------------------------------
\* get_consistent_scorers (lines 405-443)
\*
\* The fact table holds, for each of two players of team A, one row per
\* roster entry of each game they appear in: a roster that lists the player
\* several times gives as many rows of the same game (lines 203-224).
\* ---------------------------------------------------------------------------

\* the games a player appears in, the entries per roster, the points scored
Appearances ==
    [games : {0, 1, 5}, listed : {1, 5}, points : {"same", "varied"}]

PointsIn(profile, game_id) == IF profile.points = "same" THEN 2 ELSE game_id % 3

\* the rows of one player in one game
AppearanceRows(name, profile, game_id) ==
    IF game_id > profile.games THEN <<>>
    ELSE [k \in 1..profile.listed |->
            [GameId |-> game_id, PlayerName |-> name, Team |-> "A",
             TotalPoints |-> PointsIn(profile, game_id)]]

\* the fact table of five games
AppearanceTable(profile1, profile2) ==
    Flatten([g \in 1..5 |->
        AppearanceRows("P1", profile1, g) \o AppearanceRows("P2", profile2, g)])

\* the values of min_games: the default, and none
ConsistentMinGames == {1, 5}

\* the largest k with k * k <= x
ISqrt(x) == CHOOSE k \in 0..x : k * k <= x /\ (k + 1) * (k + 1) > x

\* points.std(), in thousandths; NaN for a single row
StdMilli(points) ==
    LET n == Len(points)
        s == Sum([i \in 1..n |-> [v |-> points[i]]], "v", n)
        q == Sum([i \in 1..n |-> [v |-> points[i] * points[i]]], "v", n)
    IN  IF n < 2 THEN NaN
        ELSE Num(ISqrt((1000000 * (n * q - s * s)) \div (n * (n - 1))))

\* (points.mean() / (points.std() + 0.1)).round(2), in hundredths
ConsistencyScore(points) ==
    LET n == Len(points)
        s == Sum([i \in 1..n |-> [v |-> points[i]]], "v", n)
        std == StdMilli(points)
    IN  IF std.nan THEN NaN
        ELSE Num(RoundDiv(100 * 1000 * s, n * (std.v + 100)))

\* lines 425-437
ConsistencyStats(rows, min_games) ==
    LET Of(p) == LET Is(r) == r.PlayerName = p IN SelectSeq(rows, Is)
        Listed(p) == Of(p) # <<>> /\ Len(Of(p)) >= min_games
        names == SelectSeq(PlayerOrder, Listed)
    IN  [i \in 1..Len(names) |->
            [PlayerName |-> names[i], Team |-> "A", GamesPlayed |-> Len(Of(names[i])),
             ConsistencyScore |->
                ConsistencyScore([k \in 1..Len(Of(names[i])) |-> Of(names[i])[k].TotalPoints])]]

\* sort_values('ConsistencyScore', ascending=False): rows without a score last
SortByScore(rows) ==
    LET Scored(r) == ~r.ConsistencyScore.nan
        Unscored(r) == r.ConsistencyScore.nan
        scored == SelectSeq(rows, Scored)
        keyed == SortDesc([i \in 1..Len(scored) |->
                              [key |-> scored[i].ConsistencyScore.v, row |-> scored[i]]], "key")
    IN  [i \in 1..Len(keyed) |-> keyed[i].row] \o SelectSeq(rows, Unscored)

\* the rows .head(20) keeps
ConsistentRows == 20

ConsistentScorers(rows, min_games) ==
    FirstRows(SortByScore(ConsistencyStats(rows, min_games)), ConsistentRows)

InitConsistent ==
    /\ rk_pc = "call"
    /\ rk_query = "get_consistent_scorers"
    /\ \E profile1, profile2 \in Appearances : rk_table = AppearanceTable(profile1, profile2)
    /\ rk_n \in ConsistentMinGames
    /\ rk_out = <<>>
    /\ IdleExcept("rk")

GetConsistentScorers ==
    /\ rk_pc = "call"
    /\ rk_query = "get_consistent_scorers"
    /\ rk_out' = ConsistentScorers(rk_table, rk_n)
    /\ rk_pc' = "returned"
    /\ UNCHANGED <<rk_query, rk_table, rk_n, not_rk_vars>>

SpecConsistent == InitConsistent /\ [][GetConsistentScorers]_vars

\* the games of the table in which the player appears
GamesAppeared(name) ==
    {rk_table[i].GameId : i \in {k \in 1..Len(rk_table) : rk_table[k].PlayerName = name}}

ListedOnce == \A i, j \in 1..Len(rk_table) : RowKey(rk_table[i]) = RowKey(rk_table[j]) => i = j

\* C24: with the default threshold every player listed by
\* get_consistent_scorers appears in at least 5 games, and every
\* ConsistencyScore is a number.
C24_FiveGamesAndFinite ==
    (rk_pc = "returned" /\ rk_n = 5) =>
        \A r \in 1..Len(rk_out) :
            /\ Cardinality(GamesAppeared(rk_out[r].PlayerName)) >= 5
            /\ ~rk_out[r].ConsistencyScore.nan

\* With the default threshold every listed player has at least 5 rows and a
\* score that is a number; the rows are 5 games when no roster lists a player twice.
C24_FiveRowsAndFinite ==
    (rk_pc = "returned" /\ rk_n = 5) =>
        \A r \in 1..Len(rk_out) :
            LET Is(row) == row.PlayerName = rk_out[r].PlayerName
            IN  /\ Len(SelectSeq(rk_table, Is)) >= 5
                /\ rk_out[r].GamesPlayed = Len(SelectSeq(rk_table, Is))
                /\ ~rk_out[r].ConsistencyScore.nan
                /\ ListedOnce => Cardinality(GamesAppeared(rk_out[r].PlayerName)) >= 5

\* a player whose points never vary is scored mean / 0.1
C24_SteadyScorerListed ==
    /\ rk_pc = "returned"
    /\ rk_n = 5
    /\ ListedOnce
    /\ \E r \in 1..Len(rk_out) : rk_out[r].ConsistencyScore = Num(2000)

\* ---------------------------------------------------------------------------
\* get_fixtures_matrix_data (lines 1561-1624)
\*
\* A row holds the two team names ("nan" for a null), the division, the two
\* final scores, the Referres field and a GameLocation; it has no GameEvents,
\* so get_game_top_scorer returns its default.
\* ---------------------------------------------------------------------------

\* the team names, in the order sorted() puts them
TeamOrder == <<"A", "B", "C">>

Divisions == {"D1", "D2"}

\* division_filter: none, a division of the table, a division of no game
DivisionFilters == {"None", "D1", "D3"}

FixturePairings == {<<"A", "B">>, <<"B", "A">>, <<"C", "A">>, <<"nan", "B">>}

FixtureScores == {<<Num(1), Num(0)>>, <<NaN, NaN>>, <<Num(1), NaN>>}

FixtureReferres ==
    {Value("nan", <<>>, ""),
     Value("list", <<Ref(TRUE, TRUE, "R1")>>, ""),
     Value("list", <<Ref(TRUE, TRUE, "R1"), Ref(TRUE, TRUE, "R2")>>, ""),
     Value("list_text", <<Ref(TRUE, TRUE, "R1"), Ref(TRUE, TRUE, "R2")>>, "")}

FixtureKinds ==
    {[HomeTeamName |-> p[1], AwayTeamName |-> p[2], GameDivisionDisplay |-> d,
      FinalHomeScore |-> s[1], FinalAwayScore |-> s[2], Referres |-> r,
      GameLocation |-> Value("dict_text", <<>>, "Arena")] :
        p \in FixturePairings, d \in Divisions, s \in FixtureScores, r \in FixtureReferres}

\* the longest table of fixtures
FixtureTableLens == {0, 1, 2}

FixtureTables == {WithGameIds(t) : t \in UNION {[1..k -> FixtureKinds] : k \in FixtureTableLens}}

\* filtered_data (lines 1576-1578)
FilteredData(data, division_filter) ==
    LET Kept(fixture) == division_filter = "None" \/ fixture.GameDivisionDisplay = division_filter
    IN  SelectSeq(data, Kept)

\* sorted(home_teams.union(away_teams)), the nulls dropped
AllTeams(filtered_data) ==
    LET Named(t) == \E i \in 1..Len(filtered_data) :
                        t \in {filtered_data[i].HomeTeamName, filtered_data[i].AwayTeamName}
    IN  SelectSeq(TeamOrder, Named)

\* lines 1588-1593
EmptyMatrix(all_teams) == [home \in Range(all_teams) |-> [away \in Range(all_teams) |-> <<>>]]

NotNa(x) == x # "nan"

\* the condition of is_finished, taken as either score present
EitherScore(fixture) == ~fixture.FinalHomeScore.nan \/ ~fixture.FinalAwayScore.nan

\* pd.notna(game['FinalHomeScore']) and pd.notna(game['FinalAwayScore'])
IsFinished(fixture) == ~fixture.FinalHomeScore.nan /\ ~fixture.FinalAwayScore.nan

\* game_info (lines 1605-1615), location_name and referees as parsed
GameInfo(fixture, location_name, referees) ==
    [game_id |-> fixture.GameId,
     home_score |-> fixture.FinalHomeScore,
     away_score |-> fixture.FinalAwayScore,
     location |-> location_name,
     division |-> fixture.GameDivisionDisplay,
     is_finished |-> IsFinished(fixture),
     referees |-> referees,
     top_scorer |-> NoTopScorer]

InitFixtures ==
    /\ fx_pc = "start"
    /\ fx_data \in FixtureTables
    /\ fx_filter \in DivisionFilters
    /\ fx_i = 0
    /\ fx_teams = <<>>
    /\ fx_matrix = <<>>
    /\ IdleExcept("fx")

\* lines 1572-1573
FixturesEmpty ==
    /\ fx_pc = "start"
    /\ fx_data = <<>>
    /\ fx_pc' = "returned"
    /\ UNCHANGED <<fx_data, fx_filter, fx_i, fx_teams, fx_matrix, not_fx_vars>>

\* lines 1575-1593
FixturesStart ==
    /\ fx_pc = "start"
    /\ fx_data # <<>>
    /\ fx_teams' = AllTeams(FilteredData(fx_data, fx_filter))
    /\ fx_matrix' = EmptyMatrix(fx_teams')
    /\ fx_pc' = "rows"
    /\ UNCHANGED <<fx_data, fx_filter, fx_i, not_fx_vars>>

\* one iteration of the loop of lines 1596-1617
FixturesRow ==
    /\ fx_pc = "rows"
    /\ fx_i < Len(FilteredData(fx_data, fx_filter))
    /\ LET fixture == FilteredData(fx_data, fx_filter)[fx_i + 1]
       IN  IF NotNa(fixture.HomeTeamName) /\ NotNa(fixture.AwayTeamName)
           THEN \E loc_isna \in IsNaOutcomes(fixture.GameLocation),
                   ref_isna \in IsNaOutcomes(fixture.Referres) :
                    IF loc_isna = "error" \/ ref_isna = "error"
                    THEN /\ fx_pc' = "raised"
                         /\ UNCHANGED <<fx_i, fx_matrix>>
                    ELSE /\ fx_matrix' =
                              [fx_matrix EXCEPT ![fixture.HomeTeamName][fixture.AwayTeamName] =
                                  Append(@, GameInfo(fixture,
                                      IF loc_isna = "true" THEN "TBD"
                                      ELSE ParseLocationName(fixture.GameLocation),
                                      IF ref_isna = "true" THEN <<>>
                                      ELSE ParseReferees(fixture.Referres)))]
                         /\ fx_i' = fx_i + 1
                         /\ UNCHANGED fx_pc
           ELSE /\ fx_i' = fx_i + 1
                /\ UNCHANGED <<fx_pc, fx_matrix>>
    /\ UNCHANGED <<fx_data, fx_filter, fx_teams, not_fx_vars>>

\* lines 1619-1624
FixturesReturn ==
    /\ fx_pc = "rows"
    /\ fx_i = Len(FilteredData(fx_data, fx_filter))
    /\ fx_pc' = "returned"
    /\ UNCHANGED <<fx_data, fx_filter, fx_i, fx_teams, fx_matrix, not_fx_vars>>

NextFixtures == FixturesEmpty \/ FixturesStart \/ FixturesRow \/ FixturesReturn

SpecFixtures == InitFixtures /\ [][NextFixtures]_vars

TeamRank(name) == CHOOSE i \in 1..Len(TeamOrder) : TeamOrder[i] = name

\* the games of the table that pass the filter
PassFilter(fixture) == fx_filter = "None" \/ fixture.GameDivisionDisplay = fx_filter

\* the cells that list the game, and how often
ListedIn(fixture) ==
    {c \in Range(fx_teams) \X Range(fx_teams) \X (1..Len(fx_data)) :
        /\ c[3] <= Len(fx_matrix[c[1]][c[2]])
        /\ fx_matrix[c[1]][c[2]][c[3]].game_id = fixture.GameId}

MatrixOfFilteredGames ==
    /\ \A i \in 1..(Len(fx_teams) - 1) : TeamRank(fx_teams[i]) < TeamRank(fx_teams[i + 1])
    /\ Range(fx_teams) =
          UNION {{fx_data[i].HomeTeamName, fx_data[i].AwayTeamName} \ {"nan"} :
                    i \in {k \in 1..Len(fx_data) : PassFilter(fx_data[k])}}
    /\ DOMAIN fx_matrix = Range(fx_teams)
    /\ \A home \in Range(fx_teams) : DOMAIN fx_matrix[home] = Range(fx_teams)
    /\ \A i \in 1..Len(fx_data) :
          LET fixture == fx_data[i]
          IN  IF PassFilter(fixture) /\ fixture.HomeTeamName # "nan" /\ fixture.AwayTeamName # "nan"
              THEN /\ Cardinality(ListedIn(fixture)) = 1
                   /\ \A c \in ListedIn(fixture) :
                         /\ c[1] = fixture.HomeTeamName
                         /\ c[2] = fixture.AwayTeamName
                         /\ fx_matrix[c[1]][c[2]][c[3]].is_finished =
                               (fixture.FinalHomeScore # NaN /\ fixture.FinalAwayScore # NaN)
              ELSE ListedIn(fixture) = {}

\* C25: for every dataset and division filter get_fixtures_matrix_data
\* returns; the team axis is the sorted union of the home and away names of
\* the filtered games, the matrix has a list for every ordered pair of teams,
\* each filtered game with both names is listed once, in cell [home][away],
\* a game of another division in no cell, and is_finished is true exactly
\* when both final scores are present.
C25_MatrixForEveryDataset ==
    /\ fx_pc # "raised"
    /\ fx_pc = "returned" => MatrixOfFilteredGames

\* The call raises only on a game whose Referres or GameLocation is a native
\* list; when it returns, the matrix is as C25 says.
C25_MatrixUnlessParserRaises ==
    /\ fx_pc = "raised" =>
          \E i \in 1..Len(fx_data) :
              "error" \in IsNaOutcomes(fx_data[i].Referres) \cup IsNaOutcomes(fx_data[i].GameLocation)
    /\ fx_pc = "returned" => MatrixOfFilteredGames

C25_MatrixReturned ==
    /\ fx_pc = "returned"
    /\ fx_filter = "D1"
    /\ \E i, j \in 1..Len(fx_data) :
          /\ fx_data[i].GameDivisionDisplay = "D1" /\ fx_data[i].HomeTeamName # "nan"
          /\ fx_data[j].GameDivisionDisplay = "D2"
    /\ \E home, away \in Range(fx_teams) : fx_matrix[home][away] # <<>>

\* ---------------------------------------------------------------------------
\* Two callers on one snapshot
\*
\* Each caller runs calculate_standings (lines 60-101) or
\* get_highest_scoring_games (lines 599-614) on the same table, one statement
\* or loop iteration at a time, in any interleaving. A frame is the rows it
\* holds and whether it is the snapshot object itself or an object of the
\* caller's own.
\* ---------------------------------------------------------------------------

Callers == {1, 2}

Aggregations == {"calculate_standings", "get_highest_scoring_games"}

SnapshotKinds ==
    {[HomeTeamName |-> p[1], AwayTeamName |-> p[2],
      FinalHomeScore |-> Num(h), FinalAwayScore |-> Num(a)] :
        p \in {<<"A", "B">>, <<"B", "A">>, <<"A", "C">>}, h \in {0, 1}, a \in {0, 1}}

\* the longest snapshot
SnapshotLens == {0, 1, 2}

Snapshots == {WithGameIds(t) : t \in UNION {[1..k -> SnapshotKinds] : k \in SnapshotLens}}

NoFrame == [shared |-> FALSE, rows |-> <<>>]

NoLocals == [standings |-> <<>>, i |-> 0, data_copy |-> NoFrame]

\* data_copy = data: a second name for the snapshot
SameObject(data) == [shared |-> TRUE, rows |-> data]

\* data_copy = data.copy()
DataCopy(data) == [shared |-> FALSE, rows |-> data]

\* FinalHomeScore + FinalAwayScore, as the column TotalScore
WithTotalScore(rows) ==
    [i \in 1..Len(rows) |->
        [TotalScore |-> rows[i].FinalHomeScore.v + rows[i].FinalAwayScore.v] @@ rows[i]]

\* top_n of get_highest_scoring_games
TopGames == 10

InitCallers ==
    /\ cc_data \in Snapshots
    /\ cc_fn \in [Callers -> Aggregations]
    /\ cc_pc = [c \in Callers |-> "run"]
    /\ cc_local = [c \in Callers |-> NoLocals]
    /\ cc_result = [c \in Callers |-> <<>>]
    /\ IdleExcept("cc")

\* calculate_standings: one iteration of the loop over df.iterrows()
StandingsIteration(c) ==
    /\ cc_fn[c] = "calculate_standings"
    /\ cc_pc[c] = "run"
    /\ cc_local[c].i < Len(cc_data)
    /\ cc_local' = [cc_local EXCEPT
                       ![c].standings = AccumulateRow(@, cc_data[cc_local[c].i + 1]),
                       ![c].i = @ + 1]
    /\ UNCHANGED <<cc_data, cc_fn, cc_pc, cc_result, not_cc_vars>>

\* calculate_standings: lines 91-101, KeyError on the frame of no team
StandingsFinish(c) ==
    /\ cc_fn[c] = "calculate_standings"
    /\ cc_pc[c] = "run"
    /\ cc_local[c].i = Len(cc_data)
    /\ IF cc_local[c].standings = <<>>
       THEN /\ cc_pc' = [cc_pc EXCEPT ![c] = "raised"]
            /\ UNCHANGED cc_result
       ELSE /\ cc_pc' = [cc_pc EXCEPT ![c] = "returned"]
            /\ cc_result' = [cc_result EXCEPT ![c] = BuildStandingsTable(cc_local[c].standings)]
    /\ UNCHANGED <<cc_data, cc_fn, cc_local, not_cc_vars>>

\* get_highest_scoring_games: line 611
CopyData(c) ==
    /\ cc_fn[c] = "get_highest_scoring_games"
    /\ cc_pc[c] = "run"
    /\ cc_local' = [cc_local EXCEPT ![c].data_copy = DataCopy(cc_data)]
    /\ cc_pc' = [cc_pc EXCEPT ![c] = "copied"]
    /\ UNCHANGED <<cc_data, cc_fn, cc_result, not_cc_vars>>

\* get_highest_scoring_games: line 612, a write to the frame data_copy names
AddTotalScore(c) ==
    /\ cc_pc[c] = "copied"
    /\ IF cc_local[c].data_copy.shared
       THEN /\ cc_data' = WithTotalScore(cc_data)
            /\ cc_local' = [cc_local EXCEPT ![c].data_copy.rows = WithTotalScore(cc_data)]
       ELSE /\ cc_local' = [cc_local EXCEPT ![c].data_copy.rows = WithTotalScore(@)]
            /\ UNCHANGED cc_data
    /\ cc_pc' = [cc_pc EXCEPT ![c] = "summed"]
    /\ UNCHANGED <<cc_fn, cc_result, not_cc_vars>>

\* get_highest_scoring_games: lines 613-614
LargestGames(c) ==
    /\ cc_pc[c] = "summed"
    /\ cc_result' = [cc_result EXCEPT ![c] =
          NLargest(IF cc_local[c].data_copy.shared THEN cc_data
                   ELSE cc_local[c].data_copy.rows, "TotalScore", TopGames)]
    /\ cc_pc' = [cc_pc EXCEPT ![c] = "returned"]
    /\ UNCHANGED <<cc_data, cc_fn, cc_local, not_cc_vars>>

CallerStandingsIteration == \E c \in Callers : StandingsIteration(c)

CallerStandingsFinish == \E c \in Callers : StandingsFinish(c)

CallerCopyData == \E c \in Callers : CopyData(c)

CallerAddTotalScore == \E c \in Callers : AddTotalScore(c)

CallerLargestGames == \E c \in Callers : LargestGames(c)

NextCallers ==
    \/ CallerStandingsIteration
    \/ CallerStandingsFinish
    \/ CallerCopyData
    \/ CallerAddTotalScore
    \/ CallerLargestGames

SpecCallers == InitCallers /\ [][NextCallers]_vars

\* the dict calculate_standings builds from a table
RECURSIVE StandingsOf(_)
StandingsOf(data) ==
    IF data = <<>> THEN <<>>
    ELSE AccumulateRow(StandingsOf(SubSeq(data, 1, Len(data) - 1)), data[Len(data)])

\* what the aggregation returns when it runs alone on the table
Alone(fn, data) ==
    IF fn = "calculate_standings"
    THEN BuildStandingsTable(StandingsOf(data))
    ELSE NLargest(WithTotalScore(data), "TotalScore", TopGames)

C26_SameAsAlone ==
    \A c \in Callers :
        /\ cc_pc[c] = "returned" => cc_result[c] = Alone(cc_fn[c], cc_data)
        /\ cc_pc[c] = "raised" => (cc_fn[c] = "calculate_standings" /\ cc_data = <<>>)
        /\ \A i \in 1..Len(cc_data) : DOMAIN cc_data[i] = DOMAIN NoGame \ {"GameEvents"}

C26_SnapshotKept == cc_data' = cc_data

\* C26: two callers that run aggregations on the same snapshot, their steps
\* interleaved in any order, each get the result the aggregation gives when
\* it runs alone, and no step changes the snapshot.
C26_CallersIndependent == []C26_SameAsAlone /\ [][C26_SnapshotKept]_vars

\* one caller has its highest-scoring games while the other is in the middle
\* of the standings loop
C26_Witness ==
    /\ Len(cc_data) = 2
    /\ cc_fn[1] = "get_highest_scoring_games"
    /\ cc_pc[1] = "returned"
    /\ Len(cc_result[1]) = 2
    /\ cc_fn[2] = "calculate_standings"
    /\ cc_pc[2] = "run"
    /\ cc_local[2].i = 1

\* ---------------------------------------------------------------------------
\* get_top_players_by_score (lines 507-518)
\* ---------------------------------------------------------------------------

InitTopPlayers ==
    /\ rk_pc = "call"
    /\ rk_query = "get_top_players_by_score"
    /\ rk_table \in RankedTables(FactKinds)
    /\ rk_n \in TopNs
    /\ rk_out = <<>>
    /\ IdleExcept("rk")

\* line 518: return get_top_scorers(data, top_n)
GetTopPlayersByScore ==
    /\ rk_pc = "call"
    /\ rk_query = "get_top_players_by_score"
    /\ rk_out' = QueryResult("get_top_scorers", rk_table, rk_n)
    /\ rk_pc' = "returned"
    /\ UNCHANGED <<rk_query, rk_table, rk_n, not_rk_vars>>

SpecTopPlayers == InitTopPlayers /\ [][GetTopPlayersByScore]_vars

\* C27: the rows get_top_players_by_score returns are in non-increasing
\* order of average points per game (TotalPoints / GamesPlayed).
C27_ByAverageScore ==
    rk_pc = "returned" =>
        \A i, j \in 1..Len(rk_out) :
            i < j => rk_out[i].TotalPoints * rk_out[j].GamesPlayed
                        >= rk_out[j].TotalPoints * rk_out[i].GamesPlayed

\* The rows are those of get_top_scorers: in non-increasing order of TotalPoints.
C27_ByTotalPoints ==
    rk_pc = "returned" =>
        /\ rk_out = SortThenHead(GroupByPlayer(rk_table), "TotalPoints", rk_n)
        /\ \A i, j \in 1..Len(rk_out) : i < j => rk_out[i].TotalPoints >= rk_out[j].TotalPoints

C27_TotalsRanked ==
    /\ rk_pc = "returned"
    /\ Len(rk_out) = 2
    /\ rk_out[1].TotalPoints > rk_out[2].TotalPoints
    /\ rk_out[1].GamesPlayed > rk_out[2].GamesPlayed

\* ---------------------------------------------------------------------------
\* Lead changes and the two largest leads
\* ---------------------------------------------------------------------------

NonZeroEvents(t) == {i \in 1..Len(t) : NonZero(t, i)}

BothSidesLed(row) == row.MaxHomeLead > 0 /\ row.MaxAwayLead > 0

\* C28 as stated: in every row LeadChanges >= 1 exactly when MaxHomeLead > 0
\* and MaxAwayLead > 0, and LeadChanges is at most the number of events with
\* a non-zero advantage minus one.
C28_LeadChangesBelowEvents ==
    RowEmitted =>
        /\ LastRow.LeadChanges >= 1 <=> BothSidesLed(LastRow)
        /\ LastRow.LeadChanges <= Cardinality(NonZeroEvents(timeline)) - 1

\* C28: in every row LeadChanges >= 1 exactly when MaxHomeLead > 0 and
\* MaxAwayLead > 0, so a game only one side led has LeadChanges = 0; a game
\* with at least one event of non-zero advantage has LeadChanges at most the
\* number of such events minus one, and a game with none has LeadChanges = 0.
C28_LeadChangesAndLeads ==
    RowEmitted =>
        /\ LastRow.LeadChanges >= 1 <=> BothSidesLed(LastRow)
        /\ ~BothSidesLed(LastRow) => LastRow.LeadChanges = 0
        /\ LastRow.LeadChanges >= 0
        /\ IF NonZeroEvents(timeline) = {} THEN LastRow.LeadChanges = 0
           ELSE LastRow.LeadChanges <= Cardinality(NonZeroEvents(timeline)) - 1

\* a row for a game in which the lead changed at every event after the first
C28_Witness ==
    /\ RowEmitted
    /\ BothSidesLed(LastRow)
    /\ Cardinality(NonZeroEvents(timeline)) = 3
    /\ LastRow.LeadChanges = 2

\* ---------------------------------------------------------------------------
\* get_team_performance_stats (lines 520-598), run on the rows
\* calculate_standings reads
\* ---------------------------------------------------------------------------

\* lines 545-558: the entry of a team not seen before
NewTeamStats(team) ==
    [Team |-> team, TotalGames |-> 0, HomeGames |-> 0, AwayGames |-> 0, Wins |-> 0,
     Losses |-> 0, TotalPointsScored |-> Num(0), TotalPointsAllowed |-> Num(0),
     HighestScore |-> Num(0), LowestScore |-> [inf |-> TRUE, v |-> 0]]

HasTeam(d, team) == \E i \in 1..Len(d) : d[i].Team = team

WithTeam(d, team) == IF HasTeam(d, team) THEN d ELSE Append(d, NewTeamStats(team))

\* max(highest, score): the score when it is greater, a null never is
HighestOf(highest, score) == IF FGt(score, highest) THEN score ELSE highest

\* min(lowest, score), from float('inf')
LowestOf(lowest, score) ==
    IF score.nan THEN lowest
    ELSE IF lowest.inf \/ score.v < lowest.v THEN [inf |-> FALSE, v |-> score.v]
    ELSE lowest

\* if home_score >= away_score: a drawn game given to the home side
HomeCreditedOnDraw(row) == FGe(row.FinalHomeScore, row.FinalAwayScore)

\* if home_score > away_score (line 577)
HomeCredited(row) == FGt(row.FinalHomeScore, row.FinalAwayScore)

\* lines 561-582, for one entry
UpdateTeamStats(e, row) ==
    IF e.Team = row.HomeTeamName
    THEN [e EXCEPT !.TotalGames = @ + 1,
                   !.HomeGames = @ + 1,
                   !.TotalPointsScored = FAdd(@, row.FinalHomeScore),
                   !.TotalPointsAllowed = FAdd(@, row.FinalAwayScore),
                   !.HighestScore = HighestOf(@, row.FinalHomeScore),
                   !.LowestScore = LowestOf(@, row.FinalHomeScore),
                   !.Wins = IF HomeCredited(row) THEN @ + 1 ELSE @,
                   !.Losses = IF HomeCredited(row) THEN @ ELSE @ + 1]
    ELSE IF e.Team = row.AwayTeamName
    THEN [e EXCEPT !.TotalGames = @ + 1,
                   !.AwayGames = @ + 1,
                   !.TotalPointsScored = FAdd(@, row.FinalAwayScore),
                   !.TotalPointsAllowed = FAdd(@, row.FinalHomeScore),
                   !.HighestScore = HighestOf(@, row.FinalAwayScore),
                   !.LowestScore = LowestOf(@, row.FinalAwayScore),
                   !.Wins = IF HomeCredited(row) THEN @ ELSE @ + 1,
                   !.Losses = IF HomeCredited(row) THEN @ + 1 ELSE @]
    ELSE e

\* one iteration of the loop of lines 536-582
TeamStatsRow(d, row) ==
    LET d2 == WithTeam(WithTeam(d, row.HomeTeamName), row.AwayTeamName)
    IN  [i \in 1..Len(d2) |-> UpdateTeamStats(d2[i], row)]

\* lines 585-598; WinPercentage is rounded to one decimal and kept in tenths
TeamPerformanceTable(d) ==
    SortDesc([i \in 1..Len(d) |->
                 [Team |-> d[i].Team, TotalGames |-> d[i].TotalGames,
                  Wins |-> d[i].Wins, Losses |-> d[i].Losses,
                  TotalPointsScored |-> d[i].TotalPointsScored,
                  TotalPointsAllowed |-> d[i].TotalPointsAllowed,
                  PointsDifferential |-> FSub(d[i].TotalPointsScored, d[i].TotalPointsAllowed),
                  HighestScore |-> d[i].HighestScore,
                  LowestScore |-> IF d[i].LowestScore.inf THEN 0 ELSE d[i].LowestScore.v,
                  WinPercentage |-> RoundDiv(1000 * d[i].Wins, d[i].TotalGames)]],
             "WinPercentage")

\* the numbers of rows of the tables both functions are run on
BothTableLens == {0, 1, 2}

\* both functions read the next row of the table
BothReadRow ==
    /\ st_pc = "loop"
    /\ st_rows + 1 \in BothTableLens
    /\ \E row \in StandingsRows :
        /\ standings' = AccumulateRow(standings, row)
        /\ team_stats' = TeamStatsRow(team_stats, row)
        /\ st_completed' = IF Completed(row) THEN st_completed + 1 ELSE st_completed
    /\ st_rows' = st_rows + 1
    /\ UNCHANGED <<st_pc, standings_df, team_df, not_st_tp_vars>>

\* both functions build their tables; on the table of no row
\* calculate_standings raises and get_team_performance_stats returns an
\* empty frame (lines 530-531)
BothBuild ==
    /\ st_pc = "loop"
    /\ IF standings = <<>>
       THEN /\ st_pc' = "raised"
            /\ UNCHANGED standings_df
       ELSE /\ standings_df' = BuildStandingsTable(standings)
            /\ st_pc' = "done"
    /\ team_df' = TeamPerformanceTable(team_stats)
    /\ UNCHANGED <<standings, st_rows, st_completed, team_stats, not_st_tp_vars>>

NextBoth == BothReadRow \/ BothBuild

SpecBoth == InitStandings /\ [][NextBoth]_vars

SameTotals(s, t) ==
    /\ s.Team = t.Team
    /\ s.Games = t.TotalGames
    /\ s.W = t.Wins
    /\ s.L = t.Losses
    /\ s.F = t.TotalPointsScored
    /\ s.A = t.TotalPointsAllowed

C29_SameTotals ==
    /\ Len(standings) = Len(team_stats)
    /\ \A i \in 1..Len(standings) : SameTotals(standings[i], team_stats[i])
    /\ st_pc = "done" =>
          /\ Len(standings_df) = Len(team_df)
          /\ \A i \in 1..Len(standings_df) :
                \E j \in 1..Len(team_df) : SameTotals(standings_df[i], team_df[j])

\* the teams whose count of wins grows in the step
WinCredited(before, after, col) ==
    {after[i].Team : i \in {k \in 1..Len(after) :
        after[k][col] > (IF k <= Len(before) THEN before[k][col] ELSE 0)}}

C29_SameWinner ==
    \A row \in StandingsRows :
        (/\ st_rows' = st_rows + 1
         /\ standings' = AccumulateRow(standings, row)
         /\ team_stats' = TeamStatsRow(team_stats, row)) =>
            /\ WinCredited(standings, standings', "W") = {Winner(row)}
            /\ WinCredited(team_stats, team_stats', "Wins") = {Winner(row)}

\* C29: on every game table, rows with equal or null final scores included,
\* each team's Games, W, L, F and A in calculate_standings equal its
\* TotalGames, Wins, Losses, TotalPointsScored and TotalPointsAllowed in
\* get_team_performance_stats, and the team both credit with the win of a
\* game is the one analyze_game_events names Winner.
C29_StandingsAgreeWithTeamStats == []C29_SameTotals /\ [][C29_SameWinner]_vars

\* both tables are built from a drawn game and a game without scores
C29_Witness ==
    /\ st_pc = "done"
    /\ st_rows = 2
    /\ st_completed = 1
    /\ Len(team_df) = 3
    /\ \E i \in 1..Len(team_df) : team_df[i].Wins = 2 /\ team_df[i].TotalPointsScored.nan
    /\ \E i \in 1..Len(team_df) : team_df[i].Losses = 1 /\ ~team_df[i].TotalPointsScored.nan
                                   /\ team_df[i].PointsDifferential = Num(0)

\* ---------------------------------------------------------------------------
\* get_referee_game_impact_analysis (lines 1327-1443), run on the rows
\* extract_referee_stats reads.  Of a record of referee_impact the model
\* keeps the referee, the game and TotalFouls; of the summary, the games and
\* the fouls of each referee with two games or more.
\* ---------------------------------------------------------------------------

\* an event whose label holds 'Foul' but not 'Foul Added'
OtherFoulEvent == ActorEvent("P1", "Technical Foul")

ImpactTimelines ==
    FoulTimelines \cup
    {[GameEvents |-> "text", events |-> <<OtherFoulEvent>>],
     [GameEvents |-> "text", events |-> <<FoulEvent, OtherFoulEvent>>]}

ImpactGames ==
    {[Referres |-> r.Referres, refs |-> r.refs, GameEvents |-> e.GameEvents, events |-> e.events] :
        r \in ReferresFields, e \in ImpactTimelines}

\* 'Foul' in event['EventAction'], over the labels of the model
MentionsFoul(action) == action \in {"Foul Added", "Technical Foul"}

\* lines 1366-1369, over the first n events
RECURSIVE CountFoulMentions(_, _)
CountFoulMentions(t, n) ==
    IF n = 0 THEN 0
    ELSE CountFoulMentions(t, n - 1) +
         (IF t[n].isdict /\ t[n].has_keys /\ MentionsFoul(t[n].action) THEN 1 ELSE 0)

\* total_fouls of a row (lines 1361-1371)
ImpactTotalFouls(g) ==
    IF g.GameEvents = "text" THEN CountFoulMentions(g.events, Len(g.events)) ELSE 0

\* lines 1381-1396: the records of the first n entries of referees_data
RECURSIVE ImpactRecords(_, _, _, _)
ImpactRecords(game_id, refs, total_fouls, n) ==
    IF n = 0 THEN <<>>
    ELSE LET before == ImpactRecords(game_id, refs, total_fouls, n - 1)
         IN  IF refs[n].isdict /\ refs[n].has_name
             THEN Append(before, [RefereeName |-> refs[n].name, GameId |-> game_id,
                                  TotalFouls |-> total_fouls])
             ELSE before

\* the games a referee needs to be in the summary
QualifiedGames == 2

RefereeOrder == <<"R1", "R2">>

\* lines 1404-1437: GamesRefereed and AvgFouls (in hundredths) of the
\* qualified referees, by GamesRefereed
RefereeImpactSummary(records) ==
    LET Of(name) == LET Is(r) == r.RefereeName = name IN SelectSeq(records, Is)
        Qualified(name) == Len(Of(name)) >= QualifiedGames
        names == SelectSeq(RefereeOrder, Qualified)
    IN  SortDesc([i \in 1..Len(names) |->
                     [RefereeName |-> names[i], GamesRefereed |-> Len(Of(names[i])),
                      AvgFouls |-> RoundDiv(100 * Sum(Of(names[i]), "TotalFouls", Len(Of(names[i]))),
                                            Len(Of(names[i])))]],
                 "GamesRefereed")

\* both functions read the next row of the table
BothRefereesReadRow ==
    /\ rf_pc = "row"
    /\ Len(rf_data) < rf_len
    /\ \E g \in ImpactGames :
          LET row == [GameId |-> Len(rf_data) + 1] @@ g
          IN  /\ rf_data' = Append(rf_data, row)
              /\ referee_stats' =
                    IF ParsesToList(row.Referres)
                    THEN referee_stats \o
                         RefereeRecords(row.GameId, row.refs, TotalFouls(row), Len(row.refs))
                    ELSE referee_stats
              /\ referee_impact' =
                    IF ParsesToList(row.Referres)
                    THEN referee_impact \o
                         ImpactRecords(row.GameId, row.refs, ImpactTotalFouls(row), Len(row.refs))
                    ELSE referee_impact
    /\ UNCHANGED <<rf_pc, rf_len, ref_summary, not_rf_ri_vars>>

\* both functions return
BothRefereesReturn ==
    /\ rf_pc = "row"
    /\ Len(rf_data) = rf_len
    /\ rf_pc' = "returned"
    /\ ref_summary' = RefereeImpactSummary(referee_impact)
    /\ UNCHANGED <<rf_len, rf_data, referee_stats, referee_impact, not_rf_ri_vars>>

NextBothReferees == RefereesStart \/ BothRefereesReadRow \/ BothRefereesReturn

SpecBothReferees == InitReferees /\ [][NextBothReferees]_vars

\* C30: for every game and timeline, FoulsCalledInGame of
\* extract_referee_stats equals TotalFouls of get_referee_game_impact_analysis
\* for the same referee and game.
C30_SameFoulCount ==
    /\ Len(referee_stats) = Len(referee_impact)
    /\ \A i \in 1..Len(referee_stats) :
          /\ referee_stats[i].RefereeName = referee_impact[i].RefereeName
          /\ referee_stats[i].GameId = referee_impact[i].GameId
          /\ referee_stats[i].FoulsCalledInGame = referee_impact[i].TotalFouls

\* The two record the same referees and games; the counts are equal for the
\* games whose labels that hold 'Foul' all hold 'Foul Added', and
\* FoulsCalledInGame is never the larger.
C30_SameCountOfAddedFouls ==
    /\ Len(referee_stats) = Len(referee_impact)
    /\ \A i \in 1..Len(referee_stats) :
          LET g == rf_data[referee_stats[i].GameId]
          IN  /\ referee_stats[i].RefereeName = referee_impact[i].RefereeName
              /\ referee_stats[i].GameId = referee_impact[i].GameId
              /\ referee_stats[i].FoulsCalledInGame <= referee_impact[i].TotalFouls
              /\ (\A k \in 1..Len(g.events) : g.events[k] # OtherFoulEvent) =>
                    referee_stats[i].FoulsCalledInGame = referee_impact[i].TotalFouls

C30_BothCountedFouls ==
    /\ rf_pc = "returned"
    /\ Len(ref_summary) = 1
    /\ ref_summary[1].AvgFouls = 150
    /\ \A i \in 1..Len(referee_stats) :
          referee_stats[i].FoulsCalledInGame = referee_impact[i].TotalFouls

====
